---- MODULE Spec2Model ----
(***************************************************************************)
(* A model of tyin: the store (src/src/store.ts, createStore) and the      *)
(* sync plugin's promise caches (src/unnamed/part_018 promiseCache,        *)
(* src/src/plugin-sync.ts on src/src/util-cache.ts and                      *)
(* src/src/util-dedupe.ts), the extensible object (src/src/extend.ts) and   *)
(* the array, object and reducer plugins (src/src/plugin-array.ts,          *)
(* src/src/plugin-object.ts, src/src/plugin-reducer.ts).                    *)
(***************************************************************************)
EXTENDS Integers, Sequences, FiniteSets, TLC

\* ------------------------------------------------------------------ bounds
MaxVal == 2
NumCallbacks == 2
MaxSubs == 3
MaxRounds == 2
MaxDepth == 2

States == 0..MaxVal
Callbacks == 1..NumCallbacks

VARIABLES
  state,        \* createStore: let state
  comparer,     \* createStore: options?.equals ("none" when not given)
  subscribers,  \* createStore: let subscribers, the array the name refers to now
  regs,         \* the callback of every subscribe call made so far, in call order
  unsubscribed, \* the subscribe calls whose unsubscribe function has been called
  received,     \* per subscribe call, what its callback was called with since the last set from outside
  stack,        \* the set calls in progress, innermost last: one forEach each
  rounds,       \* the number of accepted updates so far
  lastOp,       \* the operation that made the last step, and what it saw
  lastRound     \* the notification round the last step ended, if it ended one

storeVars == <<state, comparer, subscribers, regs, unsubscribed, received, stack, rounds, lastOp, lastRound>>

\* ------------------------------------------------------------ store: helpers

\* The comparers a store or a set call is given. "is" is Object.is, "mod2"
\* a consumer's comparer (equal parity), "picky" one that throws on MaxVal.
Comparers == {"is", "mod2", "picky"}

\* equals(oldState, newState): "eq", "ne" or "throw".
equalsResult(eq, old, new) ==
  CASE eq = "is" -> IF old = new THEN "eq" ELSE "ne"
    [] eq = "mod2" -> IF old % 2 = new % 2 THEN "eq" ELSE "ne"
    [] OTHER -> IF new = MaxVal THEN "throw" ELSE IF old = new THEN "eq" ELSE "ne"

\* The values set accepts as next: a state, or an updater function.
Updaters == {"inc", "boom"}
Settables == [kind : {"value"}, v : States] \cup [kind : {"fn"}, v : Updaters]

\* typeof next === "function" ? next(oldState) : next; -1 when the updater throws.
resolveNext(next, old) ==
  IF next.kind = "value" THEN next.v
  ELSE IF next.v = "inc" THEN (old + 1) % (MaxVal + 1) ELSE -1

\* equals = options?.equals || Object.is, unless the call passes its own.
effectiveEquals(eqArg, configured) ==
  IF eqArg # "none" THEN eqArg
  ELSE IF configured # "none" THEN configured
  ELSE "is"

\* A subscribe that puts the new registration first.
unshiftSubscriber(arr, entry) == <<entry>> \o arr

\* subscribers.push(subscriber): the registration goes to the end of the array.
pushSubscriber(arr, entry) == Append(arr, entry)

\* subscribers.filter((callback) => callback !== subscriber): a new array
\* without every element that is this callback.
filterSubscribers(arr, cb) == SelectSeq(arr, LAMBDA e : e.cb # cb)

\* The array a forEach in progress iterates, after an unsubscribe: filter
\* returns a new array and leaves the iterated one as it was.
iteratedAfterFilter(arr, cb, live) == arr

\* How many registrations of callback cb the array holds.
countOf(arr, cb) == Len(SelectSeq(arr, LAMBDA e : e.cb = cb))

\* A loop that reads the array's length again on every turn.
liveLimit(frame) == Len(frame.arr)

\* forEach fixes the range it visits before the first call: the length the
\* array had then, whatever is appended to it later.
forEachLimit(frame) == frame.len

\* The element forEach hands to the callback at index i.
forEachElement(frame) == frame.arr[frame.i]

\* A notify that reads the store's state when it calls each callback.
callbackArgsCurrent(frame, current) == [old |-> frame.old, new |-> current]

\* The (oldState, newState) a callback is called with: the two constants of
\* the set call that runs the forEach.
callbackArgs(frame, current) == [old |-> frame.old, new |-> frame.new]

NoRound == [done |-> FALSE, nested |-> FALSE, old |-> 0, new |-> 0, start |-> <<>>, delivered |-> <<>>,
            mutated |-> FALSE, gone |-> {}, direct |-> FALSE]

NoOp == [op |-> "init", verdict |-> "", pre |-> 0, res |-> 0, post |-> 0,
         cb |-> 0, reg |-> 0, before |-> 0, after |-> 0, began |-> FALSE,
         again |-> FALSE, direct |-> FALSE]

\* No callback has been called: new is the newState of the last call a
\* registration got, ordered says each call's oldState was the newState of
\* the call before it.
NoReceived == [r \in 1..MaxSubs |-> [new |-> -1, ordered |-> TRUE]]

\* The frame of an accepted set call: state = newState was done, forEach begins.
newFrame(old, new, arr) ==
  [nested |-> FALSE, old |-> old, new |-> new, arr |-> arr, live |-> TRUE,
   len |-> Len(arr), i |-> 1, start |-> arr, delivered |-> <<>>,
   mutated |-> FALSE]

\* The stack after the top frame's forEach called its next callback.
visited(stk, current) ==
  LET f == stk[Len(stk)]
      e == forEachElement(f)
      a == callbackArgs(f, current)
  IN [stk EXCEPT ![Len(stk)] =
        [f EXCEPT !.i = f.i + 1,
                  !.delivered = Append(f.delivered,
                                  [cb |-> e.cb, reg |-> e.reg, old |-> a.old, new |-> a.new])]]

\* What the registrations have received once the top frame's forEach has
\* called its next callback; a call made from outside any callback starts over.
receivedAfterCall(stk, rec, current) ==
  IF stk = <<>> THEN NoReceived
  ELSE LET f == stk[Len(stk)]
           e == forEachElement(f)
           a == callbackArgs(f, current)
       IN [rec EXCEPT ![e.reg] =
             [new |-> a.new,
              ordered |-> rec[e.reg].ordered /\ (rec[e.reg].new = -1 \/ rec[e.reg].new = a.old)]]

\* The frames after subscribers.push: the arrays that are the live array grow.
framesAfterPush(stk, entry) ==
  [k \in 1..Len(stk) |->
     [stk[k] EXCEPT !.arr = IF stk[k].live THEN pushSubscriber(stk[k].arr, entry) ELSE stk[k].arr,
                    !.mutated = TRUE]]

\* The frames after an unsubscribe: `subscribers` names a new array.
framesAfterFilter(stk, cb) ==
  [k \in 1..Len(stk) |->
     [stk[k] EXCEPT !.arr = iteratedAfterFilter(stk[k].arr, cb, stk[k].live),
                    !.live = FALSE, !.mutated = TRUE]]

\* ------------------------------------------------------------ store: actions

StoreInit ==
  /\ state \in States
  /\ comparer \in Comparers \cup {"none"}
  /\ subscribers = <<>>
  /\ regs = <<>>
  /\ unsubscribed = {}
  /\ received = NoReceived
  /\ stack = <<>>
  /\ rounds = 0
  /\ lastOp = NoOp
  /\ lastRound = NoRound

\* createStore(0) has been called and nothing else.
StoreIdle == StoreInit /\ state = 0 /\ comparer = "none"

\* subscribe(subscriber), called on stack stk.
doSubscribe(cb, stk) ==
  LET entry == [cb |-> cb, reg |-> Len(regs) + 1]
  IN /\ Len(regs) < MaxSubs
     /\ subscribers' = pushSubscriber(subscribers, entry)
     /\ regs' = Append(regs, cb)
     /\ stack' = framesAfterPush(stk, entry)
     /\ lastOp' = [NoOp EXCEPT !.op = "subscribe", !.cb = cb, !.reg = entry.reg,
                               !.before = countOf(subscribers, cb),
                               !.after = countOf(subscribers', cb)]
     /\ lastRound' = NoRound
     /\ received' = receivedAfterCall(stack, received, state)
     /\ UNCHANGED <<state, comparer, rounds, unsubscribed>>

\* The function subscribe call number reg returned, called on stack stk.
doUnsubscribe(reg, stk) ==
  /\ reg \in 1..Len(regs)
  /\ subscribers' = filterSubscribers(subscribers, regs[reg])
  /\ unsubscribed' = unsubscribed \cup {reg}
  /\ stack' = framesAfterFilter(stk, regs[reg])
  /\ lastOp' = [NoOp EXCEPT !.op = "unsubscribe", !.cb = regs[reg], !.reg = reg,
                            !.before = countOf(subscribers, regs[reg]),
                            !.after = countOf(subscribers', regs[reg]),
                            !.again = (reg \in unsubscribed)]
  /\ lastRound' = NoRound
  /\ received' = receivedAfterCall(stack, received, state)
  /\ UNCHANGED <<state, comparer, regs, rounds>>

\* A set that notifies without storing the new state.
stateKept(old, new) == old

\* The state a set call leaves when equals said "not equal".
acceptedState(old, new) == new

\* A set that assigns the resolved value before it calls the comparer.
stateAssignedEarly(old, new) == new

\* The state a set call leaves when the updater or the comparer threw.
stateAfterThrow(old, new) == old

\* set(next, equals), called on stack stk, up to the start of its forEach.
doSet(next, eqArg, stk) ==
  LET old == state
      new == resolveNext(next, old)
      verdict == IF new = -1 THEN "throw"
                 ELSE equalsResult(effectiveEquals(eqArg, comparer), old, new)
      \* this call repeats the call before it: that one was set(s), accepted,
      \* and its round ran to its end with no update inside it
      again == /\ stk = <<>> /\ lastOp.op = "return" /\ ~lastRound.nested
               /\ next.kind = "value" /\ next.v = lastRound.new
               /\ effectiveEquals(eqArg, comparer) = "is"
      \* the call is set(s): a state, and no comparer of its own
      direct == next.kind = "value" /\ eqArg = "none"
      op == [NoOp EXCEPT !.op = "set", !.verdict = verdict, !.pre = old, !.res = new,
                         !.again = again, !.direct = direct]
  IN /\ rounds < MaxRounds
     /\ lastRound' = NoRound
     /\ received' = receivedAfterCall(stack, received, state)
     /\ UNCHANGED <<comparer, subscribers, regs, unsubscribed>>
     /\ CASE verdict = "ne" ->
               /\ state' = acceptedState(old, new)
               /\ rounds' = rounds + 1
               /\ stack' = Append([k \in 1..Len(stk) |-> [stk[k] EXCEPT !.nested = TRUE]],
                                  newFrame(old, new, subscribers)
                                    @@ [gone |-> unsubscribed, direct |-> direct])
               /\ lastOp' = [op EXCEPT !.post = state', !.began = TRUE]
          [] verdict = "eq" ->
               /\ UNCHANGED <<state, rounds>>
               /\ stack' = stk
               /\ lastOp' = [op EXCEPT !.post = state']
          [] OTHER ->
               \* the exception leaves set, and every forEach below it
               /\ state' = stateAfterThrow(old, IF new = -1 THEN old ELSE new)
               /\ UNCHANGED rounds
               /\ stack' = <<>>
               /\ lastOp' = [op EXCEPT !.post = state']

Idle == stack = <<>>
InCallback == stack # <<>> /\ stack[Len(stack)].i <= forEachLimit(stack[Len(stack)])

Subscribe(cb) == Idle /\ doSubscribe(cb, stack)

Unsubscribe(reg) == Idle /\ doUnsubscribe(reg, stack)

Set(next, eqArg) == Idle /\ doSet(next, eqArg, stack)

\* forEach calls the next callback, which returns without touching the store.
DeliverPlain ==
  /\ InCallback
  /\ stack' = visited(stack, state)
  /\ received' = receivedAfterCall(stack, received, state)
  /\ lastOp' = [NoOp EXCEPT !.op = "deliver"]
  /\ lastRound' = NoRound
  /\ UNCHANGED <<state, comparer, subscribers, regs, unsubscribed, rounds>>

\* forEach calls the next callback, which subscribes a callback.
DeliverSubscribe(cb) == InCallback /\ doSubscribe(cb, visited(stack, state))

\* forEach calls the next callback, which calls an unsubscribe function.
DeliverUnsubscribe(reg) == InCallback /\ doUnsubscribe(reg, visited(stack, state))

\* forEach calls the next callback, which calls set (a re-entrant update).
DeliverSet(next, eqArg) ==
  /\ InCallback
  /\ Len(stack) < MaxDepth
  /\ doSet(next, eqArg, visited(stack, state))

\* A set that puts the old state back when a subscriber throws.
stateRolledBack(f, current) == f.old

\* The state once a subscriber has thrown: set has no try, the assignment
\* state = newState stays.
stateAfterSubscriberThrow(f, current) == current

\* forEach calls the next callback, which throws: the exception leaves every
\* forEach and set call in progress.
DeliverThrow ==
  /\ InCallback
  /\ stack' = <<>>
  /\ state' = stateAfterSubscriberThrow(stack[Len(stack)], state)
  /\ received' = receivedAfterCall(stack, received, state)
  /\ lastOp' = [NoOp EXCEPT !.op = "throw", !.pre = stack[Len(stack)].old,
                            !.res = stack[Len(stack)].new, !.post = state,
                            !.reg = forEachElement(stack[Len(stack)]).reg,
                            !.before = stack[Len(stack)].i,
                            !.after = forEachLimit(stack[Len(stack)]),
                            !.began = (Len(stack) > 1),
                            !.again = stack[Len(stack)].nested]
  /\ lastRound' = NoRound
  /\ UNCHANGED <<comparer, subscribers, regs, unsubscribed, rounds>>

\* forEach has visited its range: the set call returns.
Return ==
  /\ stack # <<>>
  /\ stack[Len(stack)].i > forEachLimit(stack[Len(stack)])
  /\ LET f == stack[Len(stack)]
     IN lastRound' = [done |-> TRUE, nested |-> f.nested, old |-> f.old, new |-> f.new, start |-> f.start,
                      delivered |-> f.delivered, mutated |-> f.mutated,
                      gone |-> f.gone, direct |-> f.direct]
  /\ stack' = SubSeq(stack, 1, Len(stack) - 1)
  /\ lastOp' = [NoOp EXCEPT !.op = "return"]
  /\ UNCHANGED <<state, comparer, subscribers, regs, unsubscribed, received, rounds>>



\* ------------------------------------------------- cache (util-cache.ts)
MaxTime == 2
MaxLoads == 2
MaxCallers == 3
NumArgs == 2

\* A duration longer than any time the clock reaches stands for Infinity.
Infinity == MaxTime + MaxTime + 1

VARIABLES
  now,       \* the time, in milliseconds
  options,   \* the options the setup gives its functions
  initial,   \* sync: const initial = store.get()
  cache,     \* createCache: entries, and the setTimeout callbacks not yet run
  promises,  \* the promises load() returned, in call order
  dedupers,  \* util-dedupe: oldHash, promise and handle of each deduped function
  issued,    \* history: the time each load() was called, where it is recorded
  lastSync   \* the sync operation that made the last step, and what it saw

syncVars == <<now, options, initial, cache, promises, dedupers, issued, lastSync>>

\* The extensible object of extend.ts: the variables of extend on its own.
MaxUnwrap == 2

VARIABLES
  host,      \* the host object: the value of each property, "none" when it has none
  frozen,    \* Object.freeze has been applied to the host
  revision,  \* which extend.ts is in use: "deep" (unpack) or "freezing"
  sealed,    \* seal has been called
  lastExt    \* the operation that made the last step, and what it saw

extVars == <<host, frozen, revision, sealed, lastExt>>

CapKeys == {"a", "b"}
ExtKeys == CapKeys \cup {"with", "seal"}
CapValues == {"v1", "v2"}

\* The objects a plugin can contribute: every property a value or none.
CapObjects == [CapKeys -> CapValues \cup {"none"}]
EmptyObject == [k \in CapKeys |-> "none"]

NoExt == [op |-> "none", via |-> "", depth |-> 0, end |-> "", obj |-> EmptyObject,
          before |-> [k \in ExtKeys |-> "none"], threw |-> FALSE, invoked |-> 0,
          wasSealed |-> FALSE, hung |-> FALSE]

\* extend({a: v1}) has been called and nothing else.
ExtIdle ==
  /\ host = [k \in ExtKeys |-> IF k = "a" THEN "v1" ELSE IF k = "b" THEN "none" ELSE k]
  /\ frozen = FALSE
  /\ revision = "deep"
  /\ sealed = FALSE
  /\ lastExt = NoExt

\* The array plugin on a store created without options (equals is Object.is):
\* arrays are objects on a heap, the state is a reference to one of them.
MaxArrayLen == 3
MaxElem == 2
MaxRefs == 4
MaxValues == 2

VARIABLES
  heap,      \* the arrays allocated so far: heap[r] is the content of array r
  arr,       \* the store's state: a reference into heap, 0 for null
  held,      \* the array the caller got from get() and kept, with its content then
  plain,     \* history: a plain array given the same push/unshift calls
  onlyPushes,\* history: no other call than push/unshift has been made
  lastArr    \* the array operation that made the last step, and what it saw

arrayVars == <<heap, arr, held, plain, onlyPushes, lastArr>>

Elements == 1..MaxElem
NullRef == 0
NoHeld == [ref |-> NullRef, snap |-> <<>>]
NoArr == [op |-> "none", oldRef |-> NullRef, before |-> <<>>, values |-> <<>>,
          heapBefore |-> <<>>, notified |-> FALSE, oldStateSeen |-> <<>>,
          newStateSeen |-> <<>>, result |-> 0]

ArrayIdle ==
  /\ heap = << <<>> >>
  /\ arr = 1
  /\ held = NoHeld
  /\ plain = <<>>
  /\ onlyPushes = TRUE
  /\ lastArr = NoArr

\* The object plugin on a store created without options: the state is an
\* object, given by the value of each of its keys, or null.
VARIABLES
  objState,  \* the store's state: null, or the properties of the object
  objId,     \* which object the state is (0 for null)
  objHeld,   \* the object the state was before the last patch or remove, as it is now
  lastObj    \* the object operation that made the last step, and what it saw

objectVars == <<objState, objId, objHeld, lastObj>>
MaxObjects == 3

ObjKeys == {"a", "b"}
Absent == "absent"
PropValues == {"one", "two", "undefined"}

\* Objects: every key absent or present with a value (undefined is a value).
Objects == [ObjKeys -> PropValues \cup {Absent}]
ObjectStates == [null : {FALSE}, props : Objects]
                  \cup {[null |-> TRUE, props |-> [k \in ObjKeys |-> Absent]]}
NoObj == [op |-> "none", before |-> [null |-> TRUE, props |-> [k \in ObjKeys |-> Absent]],
          update |-> "", u |-> [k \in ObjKeys |-> Absent], key |-> "",
          threw |-> FALSE, notified |-> FALSE, result |-> 0]

NoHeldObj == [ref |-> 0, props |-> [k \in ObjKeys |-> Absent]]

ObjectIdle ==
  /\ objState = [null |-> FALSE, props |-> [k \in ObjKeys |-> Absent]]
  /\ objId = 1
  /\ objHeld = NoHeldObj
  /\ lastObj = NoObj

\* The reducer plugin on a store created without options.
NumListeners == 2
MaxListens == 3
MaxCount == 2

VARIABLES
  redState,    \* the store's state: a count
  listeners,   \* the plugin's listeners array, each entry tagged with its listen call
  listenRegs,  \* history: every listen call, and whether its unlisten was called
  lastRed      \* the reducer operation that made the last step, and what it saw

reducerVars == <<redState, listeners, listenRegs, lastRed>>

Listeners == 1..NumListeners
Counts == 0..MaxCount
NoRed == [op |-> "none", action |-> "", before |-> 0, calls |-> <<>>,
          notified |-> FALSE, reg |-> 0]

ReducerIdle ==
  /\ redState = 0
  /\ listeners = <<>>
  /\ listenRegs = <<>>
  /\ lastRed = NoRed

\* Two ways of adding two plugins to one base: one host is given the plugins
\* one after the other, its twin one plugin that spreads the results of both.
VARIABLES
  chainHost,  \* the host of base.with(A).with(B)
  twinHost,   \* the host of base.with((h) => ({ ...A(h), ...B(h) }))
  composing   \* the base, the plugins A and B, and how far the two ways have got

composeVars == <<chainHost, twinHost, composing>>

\* The plugins of a composition: a function that returns the same capability
\* object for every host, or one that computes the value of one key from a
\* property it reads from the host.
HostPlugins ==
  [kind : {"constant"}, obj : CapObjects, from : {"a"}, to : {"a"}]
    \cup [kind : {"derived"}, obj : {EmptyObject}, from : CapKeys, to : CapKeys]
NoPlugin == [kind |-> "constant", obj |-> EmptyObject, from |-> "a", to |-> "a"]
BaseHosts ==
  {h \in [ExtKeys -> CapValues \cup {"none", "with", "seal"}] :
     /\ h["with"] = "with" /\ h["seal"] = "seal"
     /\ \A k \in CapKeys : h[k] \in CapValues \cup {"none"}}
NoComposing == [stage |-> "start", A |-> NoPlugin, B |-> NoPlugin]

ComposeIdle ==
  /\ chainHost = [k \in ExtKeys |-> IF k \in CapKeys THEN "none" ELSE k]
  /\ twinHost = chainHost
  /\ composing = NoComposing

\* The timer utilities, util-debounce.ts and util-throttle.ts, each wrapping
\* one callback, and the persist plugin that debounces its writes.
MaxClock == 5
MaxTimerCalls == 3
NumTimerArgs == 2
VARIABLES
  clock,      \* the time in milliseconds
  tmTimeout,  \* debounce's timeout, throttle's duration, persist's delay
  tmHandle,   \* debounce: the timeout set by the last call, while it has not run
  tmCalls,    \* the calls made to the wrapped function
  tmInvoked,  \* the calls made to the callback
  throttle    \* throttle: throttled, lastArgs and the timeout that runs restore

timerVars == <<clock, tmTimeout, tmHandle, tmCalls, tmInvoked, throttle>>

TimerArgs == 1..NumTimerArgs
NoArgs == 0
NoTimer == [due |-> -1, args |-> NoArgs]
NoThrottle == [throttled |-> FALSE, lastArgs |-> NoArgs, due |-> -1]

TimerIdle ==
  /\ clock = 0
  /\ tmTimeout = 0
  /\ tmHandle = NoTimer
  /\ tmCalls = <<>>
  /\ tmInvoked = <<>>
  /\ throttle = NoThrottle

\* The persist plugin on a store created without options, with a storage
\* that holds one item at most under the plugin's name.
VARIABLES
  storage,    \* the item under the name: a string, or none
  psOptions,  \* the map and filter options of the plugin
  psReady,    \* the plugin has been set up
  psFound,    \* what getItem returned at setup
  psWrites    \* the setItem calls made

persistVars == <<storage, psOptions, psReady, psFound, psWrites>>

NoItem == "null"
PersistMaps == {"identity", "capped"}
PersistFilters == {"all", "positive"}

PersistIdle ==
  /\ storage = NoItem
  /\ psOptions = [map |-> "identity", filter |-> "all"]
  /\ psReady = FALSE
  /\ psFound = NoItem
  /\ psWrites = <<>>

\* The useHydrate hook of one mounted component.
MaxHydCalls == 3
MaxArgChanges == 2
NumHydArgs == 2
VARIABLES
  hyd,         \* the args of the last render and the refs of the hook
  hydOptions,  \* the options the hook is called with
  hydCalls,    \* the calls made to the hydrate function and their promises
  hydChanges,  \* how many times the args have changed
  hydWanted,   \* the args changed and hydrate was not called since
  lastHyd      \* the step made last: what triggered load and what load did

hydrateVars == <<hyd, hydOptions, hydCalls, hydChanges, hydWanted, lastHyd>>

HydArgs == 1..NumHydArgs
NoHyd == [op |-> "none", invoked |-> FALSE, stale |-> FALSE, failed |-> FALSE, room |-> FALSE]

\* The refs before the first render: staleRef true, the others false.
NewHook == [mounted |-> FALSE, args |-> 1, argsRef |-> 1, loading |-> FALSE, stale |-> TRUE,
            hydrated |-> FALSE, staleTimer |-> FALSE]

HydrateIdle ==
  /\ hyd = NewHook
  /\ hydOptions = [onMount |-> TRUE, onFocus |-> FALSE, onOnline |-> TRUE,
                   interval |-> Infinity, staleTime |-> 0]
  /\ hydCalls = <<>>
  /\ hydChanges = 0
  /\ hydWanted = FALSE
  /\ lastHyd = NoHyd

utilVars == <<timerVars, persistVars, hydrateVars>>

UtilIdle == TimerIdle /\ PersistIdle /\ HydrateIdle

pluginVars == <<arrayVars, objectVars, reducerVars, composeVars, utilVars>>

PluginIdle == ArrayIdle /\ ObjectIdle /\ ReducerIdle /\ ComposeIdle /\ UtilIdle

\* The cache as its own callers see it: the variables of the cache on its own.
NumKeys == 1
ShortLifetime == 1

VARIABLES
  written,   \* history: per key, the last set and whether the key was used before
  lastCache  \* the cache operation that made the last step, and what it returned

cacheVars == <<written, lastCache>>

CacheKeys == 1..NumKeys

\* What entries.get(key) gives for a missing key, and what get returns for it.
Undefined == -1
Null == -2

NoWrite == [kind |-> "none", v |-> 0, lifetime |-> 0, at |-> 0, first |-> FALSE,
            used |-> FALSE]
NoCache == [op |-> "none", key |-> 0, v |-> 0, lifetime |-> 0, result |-> Null,
            present |-> FALSE, invoked |-> 0]

\* No operation has been made on the cache directly.
CacheIdle == written = [k \in CacheKeys |-> NoWrite] /\ lastCache = NoCache

SyncArgs == 1..NumArgs

\* The states the remote source answers a pull with.
PullValues == {0, 1}
SyncFns == {"pull", "push", "delete"}

\* entries.get(key): the promise stored under key, 0 when there is none.
cacheLookup(c, key) ==
  IF \E e \in c.entries : e.key = key
  THEN (CHOOSE e \in c.entries : e.key = key).p
  ELSE 0

\* entries.delete(key)
entriesDelete(entries, key) == {e \in entries : e.key # key}

\* entries.set(key, value)
entriesSet(entries, key, p) == entriesDelete(entries, key) \cup {[key |-> key, p |-> p]}

\* evict(key, delay): a no-op for Infinity, entries.delete at once for no delay,
\* 0 or less, setTimeout(() => entries.delete(key), delay) otherwise.
cacheEvict(c, key, delay) ==
  IF delay = Infinity THEN c
  ELSE IF delay <= 0 THEN [c EXCEPT !.entries = entriesDelete(c.entries, key)]
  ELSE [c EXCEPT !.timers = c.timers \cup {[key |-> key, due |-> now + delay]}]

\* A set that keeps only the values whose lifetime is finite.
cacheSetFiniteOnly(c, key, p, lifetime) ==
  IF lifetime > 0 /\ lifetime # Infinity
  THEN [entries |-> entriesDelete(c.entries, key) \cup {[key |-> key, p |-> p]},
        timers |-> c.timers \cup {[key |-> key, due |-> now + lifetime]}]
  ELSE c

\* set(key, value, lifetime): stores and schedules the eviction when lifetime > 0.
cacheSet(c, key, p, lifetime) ==
  IF lifetime > 0
  THEN cacheEvict([c EXCEPT !.entries = entriesSet(c.entries, key, p)], key, lifetime)
  ELSE c

\* ------------------------------------ sync on promiseCache (part_018)

\* hash(args), JSON.stringify of ["$PULL", args], ["$PUSH", store.get(), extra]
\* or ["$DEL", store.get(), extra]: one string per distinct tuple.
hashArgs(fn, a, current) ==
  IF fn = "pull" THEN <<"$PULL", -1, a>>
  ELSE IF fn = "push" THEN <<"$PUSH", current, a>>
  ELSE <<"$DEL", current, a>>

\* `P:${baseKey}`
pendingKeyOf(baseKey) == <<"P">> \o baseKey

\* `C:${baseKey}`
cacheKeyOf(baseKey) == <<"C">> \o baseKey

\* What promiseCache returns to a caller once the load promise has settled:
\* get(cacheKey, ...).catch(() => cache.evict(cacheKey)) fulfils with the
\* value, and turns a rejection into a promise fulfilled with undefined.
callerOutcome(status) ==
  IF status = "rejected" THEN "fulfilled-undefined" ELSE status

NoSync == [op |-> "none", fn |-> "", id |-> <<>>, p |-> 0, loaded |-> FALSE,
           hadPending |-> FALSE, fresh |-> FALSE, status |-> "", value |-> -1,
           callers |-> 0, outcome |-> "", pre |-> -1, resolved |-> -1]

\* The promises of identity id that have the given status.
promisesOf(id, status) ==
  {k \in 1..Len(promises) : promises[k].id = id /\ promises[k].status = status}

\* A call with identity id now falls into the D milliseconds that follow a
\* successful settlement of a call with that identity.
withinCacheWindow(id, D) ==
  /\ D > 0
  /\ \E k \in promisesOf(id, "fulfilled") :
       D = Infinity \/ (promises[k].t1 <= now /\ now < promises[k].t1 + D)

\* The cache after loadDeduped() and set(cacheKey, ..., cacheDuration), and the
\* promise the call is answered with; p = Len(promises) + 1 when load() ran.
afterMiss(c, baseKey, opt) ==
  LET hitP == cacheLookup(c, pendingKeyOf(baseKey))
      p == IF hitP # 0 THEN hitP ELSE Len(promises) + 1
      c1 == IF hitP # 0 THEN c
            ELSE cacheSet(c, pendingKeyOf(baseKey), p, opt.dedupeDuration)
  IN [cache |-> cacheSet(c1, cacheKeyOf(baseKey), p, opt.cacheDuration), p |-> p]

\* cached({load, args, options}) for sync.pull(a), sync.push(a), sync.delete(a),
\* as long as load() has run fewer than maxLoads times.
cached(fn, a, maxLoads) ==
  LET baseKey == hashArgs(fn, a, state)
      hitC == cacheLookup(cache, cacheKeyOf(baseKey))
      r == IF hitC # 0 THEN [cache |-> cache, p |-> hitC]
           ELSE afterMiss(cache, baseKey, options)
      loaded == r.p = Len(promises) + 1
  IN /\ stack = <<>>
     /\ loaded => Len(promises) < maxLoads
     /\ (~loaded /\ promises[r.p].status = "pending") =>
          promises[r.p].callers < MaxCallers
     /\ cache' = r.cache
     /\ promises' =
          IF loaded
          THEN Append(promises, [fn |-> fn, id |-> baseKey, status |-> "pending",
                                 t1 |-> -1, callers |-> 1])
          ELSE IF promises[r.p].status = "pending"
          THEN [promises EXCEPT ![r.p].callers = @ + 1]
          ELSE promises
     /\ lastSync' = [NoSync EXCEPT !.op = "call", !.fn = fn, !.id = baseKey,
                                   !.p = r.p, !.loaded = loaded,
                                   !.status = promises'[r.p].status,
                                   !.callers = promises'[r.p].callers,
                                   !.hadPending = promisesOf(baseKey, "pending") # {},
                                   !.fresh = withinCacheWindow(baseKey, options.cacheDuration)]
     /\ UNCHANGED <<now, options, initial, dedupers, storeVars, cacheVars, extVars, pluginVars>>

SyncCall(fn, a) == cached(fn, a, MaxLoads) /\ UNCHANGED issued

\* What store.set(v) does to a store without subscribers: "ne", "eq", "throw".
storeSetVerdict(v) == equalsResult(effectiveEquals("none", comparer), state, v)

\* A promiseCache whose loadDeduped does not evict the pending key.
afterSettlePendingKept(c, baseKey, status) ==
  IF status = "rejected" THEN cacheEvict(c, cacheKeyOf(baseKey), 0) ELSE c

\* The cache after the reactions to the settled load promise have run: every
\* loadDeduped().finally evicts the pending key, and after a rejection every
\* caller's catch evicts the cache key.
afterSettle(c, baseKey, status) ==
  LET c1 == cacheEvict(c, pendingKeyOf(baseKey), 0)
  IN IF status = "rejected" THEN cacheEvict(c1, cacheKeyOf(baseKey), 0) ELSE c1

\* The record kept of a settled load promise: what later steps can still
\* read of it. A rejected one is in no entry any more; of a fulfilled one the
\* identity and, for a finite cache duration, the time it settled.
settledRecord(pr, status) ==
  IF status = "rejected"
  THEN [fn |-> "", id |-> <<>>, status |-> status, t1 |-> -1, callers |-> 0]
  ELSE [fn |-> pr.fn, id |-> pr.id, status |-> status,
        t1 |-> IF options.cacheDuration \in {0, Infinity} THEN -1 ELSE now,
        callers |-> 0]

\* A load whose then-callback sets the initial state whatever the function is.
thenSetsInitial(fn, v) == initial

\* What load's then-callback hands to store.set: the resolved value for
\* setup.pull(...).then(store.set), initial for setup.delete(...).then(() =>
\* store.set(initial)).
thenSets(fn, v) == IF fn = "pull" THEN v ELSE initial

\* The promise the underlying function returned settles; load's then-callback
\* (store.set for pull, store.set(initial) for delete) runs, the load promise
\* settles and the reactions promiseCache registered on it run.
SyncSettle(p, ok, v) ==
  LET pr == promises[p]
      setTo == thenSets(pr.fn, v)
      sets == ok /\ pr.fn # "push"
      verdict == IF sets THEN storeSetVerdict(setTo) ELSE "eq"
      status == IF ok /\ verdict # "throw" THEN "fulfilled" ELSE "rejected"
  IN /\ stack = <<>>
     /\ p \in 1..Len(promises)
     /\ pr.status = "pending"
     /\ pr.fn # "pull" => v = 0
     /\ ~ok => v = 0
     /\ state' = IF verdict = "ne" THEN acceptedState(state, setTo) ELSE state
     /\ promises' = [promises EXCEPT ![p] = settledRecord(pr, status)]
     /\ cache' = afterSettle(cache, pr.id, status)
     /\ lastSync' = [NoSync EXCEPT !.op = "settle", !.fn = pr.fn, !.id = pr.id,
                                   !.p = p, !.status = status, !.callers = pr.callers,
                                   !.value = IF sets THEN setTo ELSE -1,
                                   !.pre = state,
                                   !.resolved = IF ok THEN v ELSE -1,
                                   !.outcome = callerOutcome(status)]
     /\ UNCHANGED <<now, options, initial, dedupers, issued, comparer, subscribers, regs, unsubscribed, received,
                    stack, rounds, lastOp, lastRound, cacheVars, extVars, pluginVars>>

\* dedupe: let oldHash, promise, handle, all undefined.
NoDedupe == [oldHash |-> <<>>, promise |-> 0, handle |-> -1]

\* A setTimeout callback of the cache runs: entries.delete(key).
TimerFires(t) ==
  /\ t \in cache.timers
  /\ t.due <= now
  /\ cache' = [entries |-> entriesDelete(cache.entries, t.key),
               timers |-> cache.timers \ {t}]
  /\ lastSync' = NoSync
  /\ lastCache' = NoCache
  /\ UNCHANGED <<now, options, initial, promises, dedupers, issued, storeVars, written, extVars, pluginVars>>

\* A millisecond passes; the timers that are due have run.
Tick ==
  /\ now < MaxTime
  /\ \A t \in cache.timers : t.due > now
  /\ \A fn \in SyncFns : dedupers[fn].handle = -1 \/ dedupers[fn].handle > now
  /\ now' = now + 1
  /\ lastSync' = NoSync
  /\ lastCache' = NoCache
  /\ UNCHANGED <<options, initial, cache, promises, dedupers, issued, storeVars, written, extVars, pluginVars>>

\* The durations a setup chooses from: none, a finite one, Infinity.
FiniteDuration == 2
Durations == {0, FiniteDuration, Infinity}

SyncIdle ==
  /\ now = 0
  /\ options = [cacheDuration |-> 0, dedupeDuration |-> Infinity]
  /\ initial = state
  /\ cache = [entries |-> {}, timers |-> {}]
  /\ promises = <<>>
  /\ dedupers = [fn \in SyncFns |-> NoDedupe]
  /\ issued = <<>>
  /\ lastSync = NoSync
  /\ CacheIdle

SyncInit ==
  /\ state = 0
  /\ comparer = "none"
  /\ subscribers = <<>>
  /\ regs = <<>>
  /\ unsubscribed = {}
  /\ received = NoReceived
  /\ stack = <<>>
  /\ rounds = 0
  /\ lastOp = NoOp
  /\ lastRound = NoRound
  /\ now = 0
  /\ options \in [cacheDuration : Durations, dedupeDuration : Durations \ {0}]
  /\ initial = state
  /\ cache = [entries |-> {}, timers |-> {}]
  /\ promises = <<>>
  /\ dedupers = [fn \in SyncFns |-> NoDedupe]
  /\ issued = <<>>
  /\ lastSync = NoSync
  /\ CacheIdle
  /\ ExtIdle
  /\ PluginIdle

SyncNext ==
  \/ \E fn \in SyncFns, a \in SyncArgs : SyncCall(fn, a)
  \/ \E p \in 1..MaxLoads, v \in PullValues : SyncSettle(p, TRUE, v)
  \/ \E p \in 1..MaxLoads : SyncSettle(p, FALSE, 0)
  \/ \E t \in cache.timers : TimerFires(t)
  \/ Tick

\* -------------------- promiseCache over a longer history of one sync function

MaxWindowLoads == 3

\* sync.pull(a), with the time of every load() recorded.
WindowCall(a) ==
  /\ cached("pull", a, MaxWindowLoads)
  /\ issued' = IF Len(promises') > Len(promises) THEN Append(issued, now) ELSE issued

WindowNext ==
  \/ \E a \in SyncArgs : WindowCall(a)
  \/ \E p \in 1..MaxWindowLoads, v \in PullValues : SyncSettle(p, TRUE, v)
  \/ \E p \in 1..MaxWindowLoads : SyncSettle(p, FALSE, 0)
  \/ \E t \in cache.timers : TimerFires(t)
  \/ Tick

\* ---------------------- sync on util-dedupe and util-cache (plugin-sync.ts)

\* cachedSync: hash(state, ...args); cachedPull: hash(...args); JSON.stringify
\* of the argument list, one string per distinct list.
hashCall(fn, a, current) == IF fn = "pull" THEN <<a>> ELSE <<current, a>>

\* dedupe: clear()
dedupeClear(d) == [d EXCEPT !.oldHash = <<>>, !.promise = 0]

\* dedupe: clearAfter(duration)
dedupeClearAfter(d, duration) ==
  LET d0 == [d EXCEPT !.handle = -1]
  IN IF duration <= 0 THEN dedupeClear(d0)
     ELSE IF duration # Infinity THEN [d0 EXCEPT !.handle = now + duration]
     ELSE d0

\* The deduper after a call with hash h that did not match oldHash, answered
\* with the new promise p.
dedupeMiss(d, h, p, timeout) ==
  [dedupeClearAfter(d, timeout) EXCEPT !.oldHash = h, !.promise = p]

\* The deduper once its promise p has settled: finally clearAfter(cacheTime),
\* cacheTime being 0 as cachedSync and cachedPull pass none, and after a
\* rejection the catch's clear().
dedupeSettled(d, status) ==
  LET d1 == dedupeClearAfter(d, 0)
  IN IF status = "rejected" THEN dedupeClear(d1) ELSE d1

\* A cachedPull whose store.set runs for the call that made the promise only.
setsForOwnPromiseOnly(pr, fn) == FALSE

\* cachedPull chains .then(state => store.set(state)) onto whatever promise
\* cache.get returned: the then-callback of a call answered with a promise
\* that is fulfilled already runs at once.
setsOnAnswer(pr, fn) == pr.status = "fulfilled" /\ fn = "pull"

\* sync[name](...args) of plugin-sync.ts: cache.get(key, () => deduped(...), cacheTime),
\* and for a pull the then-callback that calls store.set once the promise is fulfilled.
\* The options record holds cacheTime in its cacheDuration field and
\* dedupeTimeout in its dedupeDuration field.
Sync2Call(fn, a) ==
  LET key == hashCall(fn, a, state)
      hitC == cacheLookup(cache, key)
      d == dedupers[fn]
      deduped == hitC = 0 /\ d.oldHash = key
      p == IF hitC # 0 THEN hitC
           ELSE IF deduped THEN d.promise
           ELSE Len(promises) + 1
      loaded == p = Len(promises) + 1
      promises1 ==
        IF loaded
        THEN Append(promises, [fn |-> fn, id |-> key, status |-> "pending",
                               value |-> -1, callers |-> 1])
        ELSE IF promises[p].status = "pending"
        THEN [promises EXCEPT ![p].callers = @ + 1]
        ELSE promises
      replay == setsOnAnswer(promises1[p], fn)
  IN /\ stack = <<>>
     /\ loaded => Len(promises) < MaxLoads
     /\ (~loaded /\ promises[p].status = "pending") => promises[p].callers < MaxCallers
     /\ dedupers' = IF loaded
                    THEN [dedupers EXCEPT ![fn] = dedupeMiss(d, key, p, options.dedupeDuration)]
                    ELSE dedupers
     /\ cache' = IF hitC # 0 THEN cache ELSE cacheSet(cache, key, p, options.cacheDuration)
     /\ promises' = promises1
     /\ state' = IF replay /\ storeSetVerdict(promises1[p].value) = "ne"
                 THEN acceptedState(state, promises1[p].value)
                 ELSE state
     /\ lastSync' = [NoSync EXCEPT !.op = "call", !.fn = fn, !.id = key, !.p = p,
                                   !.loaded = loaded,
                                   !.hadPending = promisesOf(key, "pending") # {},
                                   !.status = promises1[p].status,
                                   !.callers = promises1[p].callers,
                                   !.pre = state,
                                   !.value = promises1[p].value]
     /\ UNCHANGED <<now, options, initial, issued, comparer, subscribers, regs, unsubscribed, received, stack,
                    rounds, lastOp, lastRound, cacheVars, extVars, pluginVars>>

\* The promise of the underlying function settles: dedupe's finally and catch
\* run, then every caller's then-callback (store.set for a pull).
Sync2Settle(p, ok, v) ==
  LET pr == promises[p]
      status == IF ok THEN "fulfilled" ELSE "rejected"
      sets == ok /\ pr.fn = "pull"
  IN /\ stack = <<>>
     /\ p \in 1..Len(promises)
     /\ pr.status = "pending"
     /\ pr.fn # "pull" => v = 0
     /\ ~ok => v = 0
     /\ dedupers' = [dedupers EXCEPT ![pr.fn] = dedupeSettled(@, status)]
     /\ cache' = cache
     /\ promises' = [promises EXCEPT ![p] =
                       [pr EXCEPT !.status = status, !.callers = 0,
                                  !.value = IF sets THEN v ELSE -1]]
     /\ state' = IF sets /\ storeSetVerdict(v) = "ne" THEN acceptedState(state, v) ELSE state
     /\ lastSync' = [NoSync EXCEPT !.op = "settle", !.fn = pr.fn, !.id = pr.id, !.p = p,
                                   !.status = status, !.callers = pr.callers,
                                   !.value = IF sets THEN v ELSE -1,
                                   !.pre = state,
                                   !.resolved = IF ok THEN v ELSE -1,
                                   !.outcome = status]
     /\ UNCHANGED <<now, options, initial, issued, comparer, subscribers, regs, unsubscribed, received, stack,
                    rounds, lastOp, lastRound, cacheVars, extVars, pluginVars>>

\* dedupe: the setTimeout(clear, timeout) callback of a deduped function runs.
DedupeTimerFires(fn) ==
  /\ dedupers[fn].handle # -1
  /\ dedupers[fn].handle <= now
  /\ dedupers' = [dedupers EXCEPT ![fn] = [dedupeClear(@) EXCEPT !.handle = -1]]
  /\ lastSync' = NoSync
  /\ UNCHANGED <<now, options, initial, cache, promises, issued, storeVars, cacheVars, extVars, pluginVars>>

Sync2Next ==
  \/ \E fn \in SyncFns, a \in SyncArgs : Sync2Call(fn, a)
  \/ \E p \in 1..MaxLoads, v \in PullValues : Sync2Settle(p, TRUE, v)
  \/ \E p \in 1..MaxLoads : Sync2Settle(p, FALSE, 0)
  \/ \E t \in cache.timers : TimerFires(t)
  \/ \E fn \in SyncFns : DedupeTimerFires(fn)
  \/ Tick

\* ------------------------------------------- dedupe on its own (util-dedupe.ts)

\* const deduped = dedupe(fn, { timeout, cacheTime }), called with one argument.
\* The options record holds timeout in its dedupeDuration field and cacheTime
\* in its cacheDuration field; the deduper is the one of the function "pull".
MaxInvocations == 3
DedupedFn == "pull"

\* hash(...args): JSON.stringify of the argument list.
hashArgument(a) == <<a>>

\* The deduper once a promise of fn has settled: finally clearAfter(cacheTime),
\* and after a rejection the catch's clear(). Both work on the one slot of the
\* deduped function, whichever call the settled promise belongs to.
dedupeFinally(d, status, cacheTime) ==
  LET d1 == dedupeClearAfter(d, cacheTime)
  IN IF status = "rejected" THEN dedupeClear(d1) ELSE d1

\* deduped(a): the remembered promise when the hash is the remembered hash,
\* otherwise clearAfter(timeout), oldHash = newHash and a new call of fn.
DedupeCall(a) ==
  LET newHash == hashArgument(a)
      d == dedupers[DedupedFn]
      hit == d.oldHash = newHash
      p == IF hit THEN d.promise ELSE Len(promises) + 1
      promises1 == IF hit THEN promises
                   ELSE Append(promises, [fn |-> DedupedFn, id |-> newHash,
                                          status |-> "pending", value |-> -1, callers |-> 1])
  IN /\ ~hit => Len(promises) < MaxInvocations
     /\ dedupers' = IF hit THEN dedupers
                    ELSE [dedupers EXCEPT ![DedupedFn] =
                            dedupeMiss(d, newHash, p, options.dedupeDuration)]
     /\ promises' = promises1
     /\ lastSync' = [NoSync EXCEPT !.op = "call", !.fn = DedupedFn, !.id = newHash, !.p = p,
                                   !.loaded = ~hit,
                                   !.hadPending = promisesOf(newHash, "pending") # {},
                                   !.status = promises1[p].status]
     /\ UNCHANGED <<now, options, initial, cache, issued, storeVars, cacheVars, extVars, pluginVars>>

\* The promise fn returned settles: the finally and catch callbacks run.
DedupeSettle(p, ok) ==
  LET status == IF ok THEN "fulfilled" ELSE "rejected"
  IN /\ p \in 1..Len(promises)
     /\ promises[p].status = "pending"
     /\ dedupers' = [dedupers EXCEPT ![DedupedFn] =
                       dedupeFinally(@, status, options.cacheDuration)]
     /\ promises' = [promises EXCEPT ![p].status = status, ![p].callers = 0]
     /\ lastSync' = [NoSync EXCEPT !.op = "settle", !.fn = DedupedFn, !.id = promises[p].id,
                                   !.p = p, !.status = status, !.outcome = status]
     /\ UNCHANGED <<now, options, initial, cache, issued, storeVars, cacheVars, extVars, pluginVars>>

\* dedupe(fn, options) has been called, with some timeout and cacheTime.
DedupeInit ==
  /\ StoreIdle
  /\ now = 0
  /\ options \in [cacheDuration : {0, ShortLifetime}, dedupeDuration : Durations]
  /\ initial = state
  /\ cache = [entries |-> {}, timers |-> {}]
  /\ promises = <<>>
  /\ dedupers = [fn \in SyncFns |-> NoDedupe]
  /\ issued = <<>>
  /\ lastSync = NoSync
  /\ CacheIdle
  /\ ExtIdle
  /\ PluginIdle

DedupeNext ==
  \/ \E a \in SyncArgs : DedupeCall(a)
  \/ \E p \in 1..MaxInvocations, ok \in BOOLEAN : DedupeSettle(p, ok)
  \/ DedupeTimerFires(DedupedFn)
  \/ Tick

\* ------------------------------------- the cache on its own (util-cache.ts)

\* The values of a cache of numbers; 0 is the falsy one.
CacheValues == {0, 1}

\* lifetime and delay arguments: negative, zero, two finite ones, Infinity
\* (also what an omitted lifetime defaults to).
Lifetimes == {-1, 0, ShortLifetime, FiniteDuration, Infinity}

\* entries.get(key)
entriesGet(entries, key) ==
  IF \E e \in entries : e.key = key
  THEN (CHOOSE e \in entries : e.key = key).p
  ELSE Undefined

\* A test that takes every stored value for a hit.
truthyIfDefined(v) == v # Undefined

\* if (entry): undefined and 0 are falsy.
truthy(v) == v # Undefined /\ v # 0

\* get(key) without a factory
getResult(c, key) ==
  LET entry == entriesGet(c.entries, key)
  IN IF truthy(entry) THEN entry ELSE Null

\* The history entry of key after set(key, v, lifetime) at the present time.
writeOf(w, v, lifetime) ==
  [kind |-> IF lifetime > 0 THEN "set" ELSE "expired", v |-> v,
   lifetime |-> lifetime, at |-> IF lifetime \in {ShortLifetime, FiniteDuration} THEN now ELSE 0,
   first |-> ~w.used, used |-> TRUE]

\* cache.set(key, v, lifetime)
CacheSet(key, v, lifetime) ==
  /\ cache' = cacheSet(cache, key, v, lifetime)
  /\ written' = [written EXCEPT ![key] = writeOf(@, v, lifetime)]
  /\ lastCache' = [NoCache EXCEPT !.op = "set", !.key = key, !.v = v,
                                  !.lifetime = lifetime, !.result = v,
                                  !.present = entriesGet(cache.entries, key) # Undefined]
  /\ UNCHANGED <<now, options, initial, promises, dedupers, issued, lastSync, storeVars, extVars, pluginVars>>

\* cache.get(key)
CacheGet(key) ==
  /\ lastCache' = [NoCache EXCEPT !.op = "get", !.key = key,
                                  !.result = getResult(cache, key),
                                  !.present = entriesGet(cache.entries, key) # Undefined]
  /\ UNCHANGED <<cache, written>>
  /\ UNCHANGED <<now, options, initial, promises, dedupers, issued, lastSync, storeVars, extVars, pluginVars>>

\* cache.get(key, () => v, lifetime)
CacheGetWith(key, v, lifetime) ==
  LET entry == entriesGet(cache.entries, key)
  IN /\ cache' = IF truthy(entry) THEN cache ELSE cacheSet(cache, key, v, lifetime)
     /\ written' = IF truthy(entry) THEN written
                   ELSE [written EXCEPT ![key] = writeOf(@, v, lifetime)]
     /\ lastCache' = [NoCache EXCEPT !.op = "getWith", !.key = key, !.v = v,
                                     !.lifetime = lifetime,
                                     !.result = IF truthy(entry) THEN entry ELSE v,
                                     !.present = entry # Undefined,
                                     !.invoked = IF truthy(entry) THEN 0 ELSE 1]
     /\ UNCHANGED <<now, options, initial, promises, dedupers, issued, lastSync, storeVars, extVars, pluginVars>>

\* cache.evict(key, delay)
CacheEvict(key, delay) ==
  /\ cache' = cacheEvict(cache, key, delay)
  /\ written' = [written EXCEPT ![key] = [NoWrite EXCEPT !.used = TRUE]]
  /\ lastCache' = [NoCache EXCEPT !.op = "evict", !.key = key, !.lifetime = delay]
  /\ UNCHANGED <<now, options, initial, promises, dedupers, issued, lastSync, storeVars, extVars, pluginVars>>

CacheInit ==
  /\ StoreInit
  /\ SyncIdle
  /\ ExtIdle
  /\ PluginIdle

CacheNext ==
  \/ \E k \in CacheKeys, v \in CacheValues, l \in Lifetimes :
       CacheSet(k, v, l)
  \/ \E k \in CacheKeys :
       CacheGet(k)
  \/ \E k \in CacheKeys, v \in CacheValues, l \in Lifetimes :
       CacheGetWith(k, v, l)
  \/ \E k \in CacheKeys, d \in Lifetimes :
       CacheEvict(k, d)
  \/ \E t \in cache.timers : TimerFires(t)
  \/ Tick

\* ------------------------------------------------ extend (extend.ts)

\* A plugin: depth functions, each returning the next when called with the
\* host, around what the innermost call gives - a capability object, the host
\* itself, undefined, an exception thrown by the innermost function, or that
\* innermost function itself ("self").
Plugins ==
  {pl \in [depth : 0..MaxUnwrap,
           end : {"object", "host", "undefined", "throw", "self"},
           obj : CapObjects] :
     /\ pl.end \in {"throw", "self"} => pl.depth >= 1
     /\ pl.end # "object" => pl.obj = EmptyObject}

\* What the terminal value of a plugin contributes to Object.assign: the own
\* properties of the object; nothing for {} (the host itself) and undefined.
contributed(pl) == IF pl.end = "object" THEN pl.obj ELSE EmptyObject

\* An unpack that calls the plugin once and takes what it returns, a function
\* contributing nothing.
unpackOnce(pl) ==
  IF pl.depth = 0 THEN [threw |-> FALSE, invoked |-> 0, obj |-> contributed(pl)]
  ELSE IF pl.depth = 1
  THEN [threw |-> pl.end = "throw", invoked |-> 1,
        obj |-> IF pl.end = "throw" THEN EmptyObject ELSE contributed(pl)]
  ELSE [threw |-> FALSE, invoked |-> 1, obj |-> EmptyObject]

\* unpack(host, plugin): {} for the host itself, the plugin when it is not a
\* function, otherwise unpack(host, plugin(host)). A function that returns
\* itself is called again and again: the recursion ends in a RangeError when
\* the stack is exhausted.
unpack(pl) ==
  [threw |-> pl.end \in {"throw", "self"}, invoked |-> pl.depth,
   obj |-> IF pl.end \in {"throw", "self"} THEN EmptyObject ELSE contributed(pl)]

\* plugin(host) of the freezing revision: a plugin that is no function cannot
\* be called (TypeError); a returned function has no own properties to assign.
callOnce(pl) ==
  IF pl.depth = 0 THEN [threw |-> TRUE, invoked |-> 0, obj |-> EmptyObject]
  ELSE unpackOnce(pl)

\* An assign that replaces the properties of the target by those of the source.
assignReplacing(h, obj) ==
  [k \in ExtKeys |-> IF k \in CapKeys THEN obj[k] ELSE h[k]]

\* Object.assign(h, obj)
assign(h, obj) ==
  [k \in ExtKeys |-> IF k \in CapKeys /\ obj[k] # "none" THEN obj[k] ELSE h[k]]

\* Object.assign(h, { with: add, seal })
installed(h) == [h EXCEPT !["with"] = "with", !["seal"] = "seal"]

\* Object.assign on a frozen target throws as soon as there is a property to set.
assignThrows(isFrozen, obj) == isFrozen /\ obj # EmptyObject

\* An add that catches what the plugin throws and goes on with nothing to
\* assign.
afterAddSwallowing(h, isFrozen, r) ==
  IF assignThrows(isFrozen, r.obj) \/ isFrozen THEN [host |-> h, threw |-> TRUE]
  ELSE [host |-> installed(assign(h, r.obj)), threw |-> FALSE]

\* add: extend(Object.assign(host, unpack(host, plugin))), r being the outcome
\* of the unpacking: the host afterwards and whether the call threw. On a
\* frozen host the second Object.assign, of with and seal, throws at the latest.
afterAdd(h, isFrozen, r) ==
  IF r.threw \/ assignThrows(isFrozen, r.obj) \/ isFrozen
  THEN [host |-> h, threw |-> TRUE]
  ELSE [host |-> installed(assign(h, r.obj)), threw |-> FALSE]

\* The recursion of unpack never ends: return unpack(host, plugin(host)) is a
\* tail call, which an engine with proper tail calls runs in constant stack.
neverReturns(rev, pl, tailCalls) == rev = "deep" /\ pl.end = "self" /\ tailCalls

\* host.with(plugin), or a call of a reference to with taken earlier, on an
\* engine with or without proper tail calls.
With(pl, via, tailCalls) ==
  LET r == IF revision = "deep" THEN unpack(pl) ELSE callOnce(pl)
      out == afterAdd(host, frozen, r)
      hangs == neverReturns(revision, pl, tailCalls)
  IN /\ ~lastExt.hung
     /\ via = "method" => host["with"] = "with"
     /\ tailCalls => pl.end = "self" /\ revision = "deep"
     /\ host' = IF hangs THEN host ELSE out.host
     /\ lastExt' = [NoExt EXCEPT !.op = "with", !.via = via, !.depth = pl.depth,
                                 !.end = pl.end, !.obj = pl.obj, !.before = host,
                                 !.threw = (~hangs /\ out.threw),
                                 !.invoked = r.invoked,
                                 !.wasSealed = sealed, !.hung = hangs]
     /\ UNCHANGED <<frozen, revision, sealed>>

\* sealExtensible: Object.freeze(host) in the freezing revision only.
frozenAfterSeal(rev) == rev = "freezing"

\* host.seal(), or a call of a reference to seal taken earlier.
Seal(via) ==
  /\ ~lastExt.hung
  /\ via = "method" => host["seal"] = "seal"
  /\ host' = [host EXCEPT !["with"] = "none", !["seal"] = "none"]
  /\ frozen' = (frozen \/ frozenAfterSeal(revision))
  /\ sealed' = TRUE
  /\ lastExt' = [NoExt EXCEPT !.op = "seal", !.via = via, !.before = host,
                              !.wasSealed = sealed]
  /\ UNCHANGED revision

\* An attempt to add, replace or delete a capability of the object directly:
\* host[k] = v, or delete host[k] for v = "none".
Mutate(k, v) ==
  /\ ~lastExt.hung
  /\ host' = IF frozen THEN host ELSE [host EXCEPT ![k] = v]
  /\ lastExt' = [NoExt EXCEPT !.op = "mutate", !.before = host, !.threw = frozen,
                              !.wasSealed = sealed]
  /\ UNCHANGED <<frozen, revision, sealed>>

ExtInit ==
  /\ StoreInit
  /\ SyncIdle
  /\ PluginIdle
  /\ host = [k \in ExtKeys |-> IF k = "a" THEN "v1" ELSE IF k = "b" THEN "none" ELSE k]
  /\ frozen = FALSE
  /\ revision \in {"deep", "freezing"}
  /\ sealed = FALSE
  /\ lastExt = NoExt

ExtNext ==
  \/ \E pl \in Plugins, via \in {"method", "reference"}, tailCalls \in BOOLEAN :
       With(pl, via, tailCalls) /\ UNCHANGED <<storeVars, syncVars, cacheVars, pluginVars>>
  \/ \E via \in {"method", "reference"} :
       Seal(via) /\ UNCHANGED <<storeVars, syncVars, cacheVars, pluginVars>>
  \/ \E k \in CapKeys, v \in CapValues \cup {"none"} :
       Mutate(k, v) /\ UNCHANGED <<storeVars, syncVars, cacheVars, pluginVars>>

\* ---------------------------------------------------------------------------
\* extend.ts: two plugins added one after the other, and added as one.

\* A value computed from a property of the host, which may be missing.
derivedFrom(v) == IF v = "v1" THEN "v2" ELSE "v1"

\* plugin(host): what the plugin function returns for this host.
pluginResult(pl, h) ==
  IF pl.kind = "constant" THEN pl.obj
  ELSE [k \in CapKeys |-> IF k = pl.to THEN derivedFrom(h[pl.from]) ELSE "none"]

\* The keys a plugin contributes, and the keys of the host it reads.
keysOf(pl) ==
  IF pl.kind = "constant" THEN {k \in CapKeys : pl.obj[k] # "none"} ELSE {pl.to}
readsOf(pl) == IF pl.kind = "constant" THEN {} ELSE {pl.from}

\* ({ ...x, ...y })
spreadMerge(x, y) == [k \in CapKeys |-> IF y[k] # "none" THEN y[k] ELSE x[k]]

\* host.with(plugin) for a plugin function that returns an object: unpack calls
\* it once with the host, add assigns the result and installs with and seal.
withResult(h, obj) ==
  afterAdd(h, FALSE, [threw |-> FALSE, invoked |-> 1, obj |-> obj]).host

\* base.with(A), then .with(B) on what that returned.
ChainWith(pl) ==
  /\ composing.stage \in {"start", "first"}
  /\ chainHost' = withResult(chainHost, pluginResult(pl, chainHost))
  /\ composing' = IF composing.stage = "start"
                  THEN [composing EXCEPT !.stage = "first", !.A = pl]
                  ELSE [composing EXCEPT !.stage = "second", !.B = pl]
  /\ UNCHANGED twinHost

\* base.with((h) => ({ ...A(h), ...B(h) })) on the twin.
CombinedWith ==
  /\ composing.stage = "second"
  /\ twinHost' = withResult(twinHost, spreadMerge(pluginResult(composing.A, twinHost),
                                                  pluginResult(composing.B, twinHost)))
  /\ composing' = [composing EXCEPT !.stage = "done"]
  /\ UNCHANGED chainHost

\* extend(base) twice, for the same base.
ComposeInit ==
  /\ StoreIdle
  /\ SyncIdle
  /\ ExtIdle
  /\ ArrayIdle
  /\ ObjectIdle
  /\ ReducerIdle
  /\ chainHost \in BaseHosts
  /\ twinHost = chainHost
  /\ composing = NoComposing
  /\ UtilIdle

ComposeNext ==
  \/ \E pl \in HostPlugins :
       ChainWith(pl) /\ UNCHANGED <<storeVars, syncVars, cacheVars, extVars, arrayVars, objectVars, reducerVars, utilVars>>
  \/ CombinedWith /\ UNCHANGED <<storeVars, syncVars, cacheVars, extVars, arrayVars, objectVars, reducerVars, utilVars>>

\* ---------------------------------------------------------------------------
\* plugin-array.ts: arrayAPI on createStore(initial).

ArrayContents == UNION {[1..n -> Elements] : n \in 0..MaxArrayLen}
ValueLists == UNION {[1..n -> Elements] : n \in 0..MaxValues}

\* The content of the array a reference points to; null has none.
contentOf(h, r) == IF r = NullRef THEN <<>> ELSE h[r]

\* [...values, ...state]
prepended(old, values) == values \o old

\* A push that puts the values in front of the old elements.
valuesFirst(old, values) == values \o old

\* [...state, ...values]
appended(old, values) == old \o values

\* Array.prototype.reverse, on the content.
reversed(s) == [i \in 1..Len(s) |-> s[Len(s) + 1 - i]]

\* The comparators passed to sort: ascending, descending, and one that calls
\* every pair equal (the sort is stable, so the order stays).
Comparators == {"ascending", "descending", "equal"}

\* Array.prototype.sort(compare), on the content.
sorted(s, compare) ==
  IF compare = "equal" THEN s
  ELSE IF compare = "ascending" THEN SortSeq(s, LAMBDA x, y : x < y)
  ELSE SortSeq(s, LAMBDA x, y : x > y)

\* The predicates passed to filter, of (value, index).
Predicates == {"isOne", "notFirst"}
keeps(keep, v, i) == IF keep = "isOne" THEN v = 1 ELSE i > 1

RECURSIVE filteredFrom(_, _, _)
filteredFrom(s, keep, i) ==
  IF i > Len(s) THEN <<>>
  ELSE (IF keeps(keep, s[i], i) THEN <<s[i]>> ELSE <<>>) \o filteredFrom(s, keep, i + 1)

\* Array.prototype.filter(keep)
filtered(s, keep) == filteredFrom(s, keep, 1)

\* The callbacks passed to map, of (value, index).
MapCallbacks == {"other", "first"}
mapsTo(callback, v, i) ==
  IF callback = "other" THEN (IF v = 1 THEN MaxElem ELSE 1) ELSE (IF i = 1 THEN 1 ELSE v)

\* Array.prototype.map(callback)
mapped(s, callback) == [i \in 1..Len(s) |-> mapsTo(callback, s[i], i)]

\* store.set(updater) of a store without options: the updater has run, leaving
\* the heap h1 and returning newRef; the state is replaced and the subscribers
\* are called with (oldState, newState) unless Object.is(oldState, newState).
arraySet(op, values, h1, newRef) ==
  LET changed == newRef # arr
  IN /\ heap' = h1
     /\ arr' = newRef
     /\ lastArr' = [NoArr EXCEPT !.op = op, !.oldRef = arr,
                                 !.before = contentOf(heap, arr),
                                 !.values = values, !.heapBefore = heap,
                                 !.notified = changed,
                                 !.oldStateSeen = IF changed THEN contentOf(h1, arr) ELSE <<>>,
                                 !.newStateSeen = IF changed THEN contentOf(h1, newRef) ELSE <<>>]

\* A new array with the given content: the heap after, and its reference.
allocated(h, content) == Append(h, content)

\* const before = store.get(), kept by the caller.
ArrGet ==
  /\ arr # NullRef
  /\ held' = [ref |-> arr, snap |-> heap[arr]]
  /\ lastArr' = [NoArr EXCEPT !.op = "get"]
  /\ UNCHANGED <<heap, arr, plain, onlyPushes>>

\* length: () => store.get()?.length ?? 0
ArrLength ==
  /\ lastArr' = [NoArr EXCEPT !.op = "length", !.oldRef = arr,
                              !.before = contentOf(heap, arr),
                              !.result = IF arr = NullRef THEN 0 ELSE Len(heap[arr])]
  /\ UNCHANGED <<heap, arr, held, plain, onlyPushes>>

\* push: store.set((state) => state ? [...state, ...values] : values)
ArrPush(values) ==
  /\ Len(heap) < MaxRefs
  /\ Len(contentOf(heap, arr)) + Len(values) <= MaxArrayLen
  /\ arraySet("push", values,
              allocated(heap, IF arr # NullRef THEN appended(heap[arr], values) ELSE values),
              Len(heap) + 1)
  /\ plain' = plain \o values
  /\ UNCHANGED <<held, onlyPushes>>

\* unshift: store.set((state) => state ? [...values, ...state] : values)
ArrUnshift(values) ==
  /\ Len(heap) < MaxRefs
  /\ Len(contentOf(heap, arr)) + Len(values) <= MaxArrayLen
  /\ arraySet("unshift", values,
              allocated(heap, IF arr # NullRef THEN prepended(heap[arr], values) ELSE values),
              Len(heap) + 1)
  /\ plain' = values \o plain
  /\ UNCHANGED <<held, onlyPushes>>

\* filter: store.set((state) => state?.filter(keep) ?? null)
ArrFilter(keep) ==
  /\ Len(heap) < MaxRefs
  /\ IF arr # NullRef
       THEN arraySet("filter", <<>>, allocated(heap, filtered(heap[arr], keep)), Len(heap) + 1)
       ELSE arraySet("filter", <<>>, heap, NullRef)
  /\ onlyPushes' = FALSE
  /\ UNCHANGED <<held, plain>>

\* map: store.set((state) => state?.map(callback) ?? null)
ArrMap(callback) ==
  /\ Len(heap) < MaxRefs
  /\ IF arr # NullRef
       THEN arraySet("map", <<>>, allocated(heap, mapped(heap[arr], callback)), Len(heap) + 1)
       ELSE arraySet("map", <<>>, heap, NullRef)
  /\ onlyPushes' = FALSE
  /\ UNCHANGED <<held, plain>>

\* state.sort(compare) sorts the state array itself and returns it; the spread
\* then copies the sorted array.
sortedInPlace(h, r, compare) == [h EXCEPT ![r] = sorted(h[r], compare)]

\* state.reverse() reverses the state array itself and returns it.
reversedInPlace(h, r) == [h EXCEPT ![r] = reversed(h[r])]

\* sort: store.set((state) => state ? [...state.sort(compare)] : null)
ArrSort(compare) ==
  /\ Len(heap) < MaxRefs
  /\ IF arr # NullRef
       THEN LET h1 == sortedInPlace(heap, arr, compare)
            IN arraySet("sort", <<>>, allocated(h1, h1[arr]), Len(heap) + 1)
       ELSE arraySet("sort", <<>>, heap, NullRef)
  /\ onlyPushes' = FALSE
  /\ UNCHANGED <<held, plain>>

\* reverse: store.set((state) => state ? [...state.reverse()] : null)
ArrReverse ==
  /\ Len(heap) < MaxRefs
  /\ IF arr # NullRef
       THEN LET h1 == reversedInPlace(heap, arr)
            IN arraySet("reverse", <<>>, allocated(h1, h1[arr]), Len(heap) + 1)
       ELSE arraySet("reverse", <<>>, heap, NullRef)
  /\ onlyPushes' = FALSE
  /\ UNCHANGED <<held, plain>>

\* extend(createStore(initial)).with(arrayAPI()), initial an array or null.
ArrayInit ==
  /\ StoreIdle
  /\ SyncIdle
  /\ ExtIdle
  /\ \E initialArray \in ArrayContents, isNull \in BOOLEAN :
       /\ isNull => initialArray = <<>>
       /\ heap = IF isNull THEN <<>> ELSE <<initialArray>>
       /\ arr = IF isNull THEN NullRef ELSE 1
       /\ plain = initialArray
  /\ held = NoHeld
  /\ onlyPushes = TRUE
  /\ lastArr = NoArr
  /\ ObjectIdle
  /\ ReducerIdle
  /\ ComposeIdle
  /\ UtilIdle

ArrayNext ==
  \/ ArrGet /\ UNCHANGED <<storeVars, syncVars, cacheVars, extVars, objectVars, reducerVars, composeVars, utilVars>>
  \/ ArrLength /\ UNCHANGED <<storeVars, syncVars, cacheVars, extVars, objectVars, reducerVars, composeVars, utilVars>>
  \/ \E values \in ValueLists :
       ArrPush(values) /\ UNCHANGED <<storeVars, syncVars, cacheVars, extVars, objectVars, reducerVars, composeVars, utilVars>>
  \/ \E values \in ValueLists :
       ArrUnshift(values) /\ UNCHANGED <<storeVars, syncVars, cacheVars, extVars, objectVars, reducerVars, composeVars, utilVars>>
  \/ \E keep \in Predicates :
       ArrFilter(keep) /\ UNCHANGED <<storeVars, syncVars, cacheVars, extVars, objectVars, reducerVars, composeVars, utilVars>>
  \/ \E callback \in MapCallbacks :
       ArrMap(callback) /\ UNCHANGED <<storeVars, syncVars, cacheVars, extVars, objectVars, reducerVars, composeVars, utilVars>>
  \/ \E compare \in Comparators :
       ArrSort(compare) /\ UNCHANGED <<storeVars, syncVars, cacheVars, extVars, objectVars, reducerVars, composeVars, utilVars>>
  \/ ArrReverse /\ UNCHANGED <<storeVars, syncVars, cacheVars, extVars, objectVars, reducerVars, composeVars, utilVars>>


\* ---------------------------------------------------------------------------
\* plugin-object.ts: objectAPI on createStore(initial), no merge option.

\* The updaters passed to patch: (state) => ({ a: state.b }) and
\* (state) => ({ b: state.a }). Reading a property of null throws.
PatchUpdaters == {"aFromB", "bFromA"}
PatchUpdates ==
  {[kind |-> "object", u |-> o] : o \in Objects}
    \cup {[kind |-> f, u |-> [k \in ObjKeys |-> Absent]] : f \in PatchUpdaters}

\* state.k: undefined for a key the object does not have.
readProp(props, k) == IF props[k] = Absent THEN "undefined" ELSE props[k]

\* update(state)
updaterResult(update, st) ==
  IF update.kind = "aFromB"
    THEN [k \in ObjKeys |-> IF k = "a" THEN readProp(st.props, "b") ELSE Absent]
    ELSE [k \in ObjKeys |-> IF k = "b" THEN readProp(st.props, "a") ELSE Absent]

\* ({ ...right, ...left }): the keys of left win.
mergeRight(left, right) ==
  [k \in ObjKeys |-> IF left[k] # Absent THEN left[k] ELSE right[k]]

\* mergeLeft: ({ ...left, ...right }); spreading null gives no keys.
mergeLeft(left, right) ==
  [k \in ObjKeys |-> IF right[k] # Absent THEN right[k] ELSE left[k]]

\* const { [key]: _, ...remainder } = state
remainder(props, key) == [k \in ObjKeys |-> IF k = key THEN Absent ELSE props[k]]

\* Object.keys(o).length
keyCount(props) == Cardinality({k \in ObjKeys : props[k] # Absent})

\* A merge that writes the keys into the object it was given: the object
\* stays the same one and holds the new properties.
assignedInPlace(oldId, oldProps, newProps) ==
  [id |-> IF oldId = 0 THEN 1 ELSE oldId, props |-> newProps, old |-> newProps]

\* An object literal with spreads, ({ ...left, ...right }), and the rest
\* pattern const { [key]: _, ...remainder } = state: a new object with the
\* given properties; the object spread from keeps its own.
newObject(oldId, oldProps, newProps) ==
  [id |-> CHOOSE r \in 1..MaxObjects : r # oldId /\ r # objHeld.ref,
   props |-> newProps, old |-> oldProps]

\* store.set(next) on a store without options: Object.is(oldState, newState)
\* compares the objects' identities; the subscribers are called when it is false.
setNotifies(oldId, newId) == oldId # newId

\* size: () => Object.keys(store.get() ?? {}).length
ObjSize ==
  /\ lastObj' = [NoObj EXCEPT !.op = "size", !.before = objState,
                              !.result = keyCount(objState.props)]
  /\ UNCHANGED <<objState, objId, objHeld>>

\* patch(update): store.set(merge(state, update(state))) for a function,
\* store.set(merge(state, update)) otherwise; the merged object is a new
\* object, so Object.is is false and the subscribers are notified.
ObjPatch(update) ==
  LET isUpdater == update.kind \in PatchUpdaters
      throws == isUpdater /\ objState.null
      u == IF isUpdater THEN updaterResult(update, objState) ELSE update.u
      merged == newObject(objId, objState.props, mergeLeft(objState.props, u))
  IN /\ objState' = IF throws THEN objState
                    ELSE [null |-> FALSE, props |-> merged.props]
     /\ objId' = IF throws THEN objId ELSE merged.id
     /\ objHeld' = IF throws THEN objHeld ELSE [ref |-> objId, props |-> merged.old]
     /\ lastObj' = [NoObj EXCEPT !.op = "patch", !.before = objState,
                                 !.update = update.kind,
                                 !.u = IF throws THEN NoObj.u ELSE u,
                                 !.threw = throws,
                                 !.notified = ~throws /\ setNotifies(objId, merged.id)]

\* remove(key): nothing for a null state, otherwise store.set(remainder).
ObjRemove(key) ==
  LET rest == newObject(objId, objState.props, remainder(objState.props, key))
  IN /\ objState' = IF objState.null THEN objState
                    ELSE [null |-> FALSE, props |-> rest.props]
     /\ objId' = IF objState.null THEN objId ELSE rest.id
     /\ objHeld' = IF objState.null THEN objHeld ELSE [ref |-> objId, props |-> rest.old]
     /\ lastObj' = [NoObj EXCEPT !.op = "remove", !.before = objState, !.key = key,
                                 !.notified = ~objState.null /\ setNotifies(objId, rest.id)]

\* extend(createStore(initial)).with(objectAPI())
ObjectInit ==
  /\ StoreIdle
  /\ SyncIdle
  /\ ExtIdle
  /\ ArrayIdle
  /\ objState \in ObjectStates
  /\ objId = IF objState.null THEN 0 ELSE 1
  /\ objHeld = NoHeldObj
  /\ lastObj = NoObj
  /\ ReducerIdle
  /\ ComposeIdle
  /\ UtilIdle

ObjectNext ==
  \/ ObjSize /\ UNCHANGED <<storeVars, syncVars, cacheVars, extVars, arrayVars, reducerVars, composeVars, utilVars>>
  \/ \E update \in PatchUpdates :
       ObjPatch(update) /\ UNCHANGED <<storeVars, syncVars, cacheVars, extVars, arrayVars, reducerVars, composeVars, utilVars>>
  \/ \E key \in ObjKeys :
       ObjRemove(key) /\ UNCHANGED <<storeVars, syncVars, cacheVars, extVars, arrayVars, reducerVars, composeVars, utilVars>>


\* ---------------------------------------------------------------------------
\* plugin-reducer.ts: reducerAPI(reducer) on createStore(initial).

\* The actions of the reducer: one that changes the count, one that returns
\* the state it was given.
ReducerActions == {"increment", "nothing"}

\* reducer(state, action)
reducer(st, action) == IF action = "increment" THEN (st + 1) % (MaxCount + 1) ELSE st

\* listeners.push(listener)
pushListener(seq, entry) == Append(seq, entry)

\* listeners.filter((callback) => callback !== listener)
filterListeners(seq, cb) == SelectSeq(seq, LAMBDA e : e.cb # cb)

\* listen(listener): adds the listener and returns its unlisten function.
Listen(cb) ==
  /\ Len(listenRegs) < MaxListens
  /\ listeners' = pushListener(listeners, [cb |-> cb, reg |-> Len(listenRegs) + 1])
  /\ listenRegs' = Append(listenRegs, [cb |-> cb, unlistened |-> FALSE])
  /\ lastRed' = [NoRed EXCEPT !.op = "listen", !.reg = Len(listenRegs) + 1]
  /\ UNCHANGED redState

\* The function returned by the reg-th listen call, called now.
Unlisten(reg) ==
  /\ reg \in 1..Len(listenRegs)
  /\ listeners' = filterListeners(listeners, listenRegs[reg].cb)
  /\ listenRegs' = [listenRegs EXCEPT ![reg].unlistened = TRUE]
  /\ lastRed' = [NoRed EXCEPT !.op = "unlisten", !.reg = reg]
  /\ UNCHANGED redState

\* dispatch(action): store.set(reducer(store.get(), action)), which notifies
\* the store's subscribers unless Object.is(old, new); then every entry of
\* listeners is called with the action.
Dispatch(action) ==
  LET next == reducer(redState, action)
  IN /\ redState' = next
     /\ lastRed' = [NoRed EXCEPT !.op = "dispatch", !.action = action,
                                 !.before = redState,
                                 !.calls = [i \in 1..Len(listeners) |-> listeners[i].reg],
                                 !.notified = (next # redState)]
     /\ UNCHANGED <<listeners, listenRegs>>

\* extend(createStore(initial)).with(reducerAPI(reducer))
ReducerInit ==
  /\ StoreIdle
  /\ SyncIdle
  /\ ExtIdle
  /\ ArrayIdle
  /\ ObjectIdle
  /\ redState \in Counts
  /\ listeners = <<>>
  /\ listenRegs = <<>>
  /\ lastRed = NoRed
  /\ ComposeIdle
  /\ UtilIdle

ReducerNext ==
  \/ \E cb \in Listeners :
       Listen(cb) /\ UNCHANGED <<storeVars, syncVars, cacheVars, extVars, arrayVars, objectVars, composeVars, utilVars>>
  \/ \E reg \in 1..MaxListens :
       Unlisten(reg) /\ UNCHANGED <<storeVars, syncVars, cacheVars, extVars, arrayVars, objectVars, composeVars, utilVars>>
  \/ \E action \in ReducerActions :
       Dispatch(action) /\ UNCHANGED <<storeVars, syncVars, cacheVars, extVars, arrayVars, objectVars, composeVars, utilVars>>


\* ---------------------------------------------------------------------------
\* util-debounce.ts: debounced = debounce(callback, timeout), called with one
\* argument. Timeouts run when they are due.

DebounceTimeouts == {-1, 0, 1, 2}

\* A debounced function that leaves a timeout that is under way alone.
timeoutKept(handle, args, timeout, t) ==
  IF handle # NoTimer THEN handle ELSE [due |-> t + timeout, args |-> args]

\* The function debounce returns: clearTimeout(handle);
\* handle = setTimeout(() => callback(...args), timeout).
debounced(handle, args, timeout, t) == [due |-> t + timeout, args |-> args]

\* No timeout of the timer utilities is due.
timersIdle ==
  /\ tmHandle.due = -1 \/ tmHandle.due > clock
  /\ throttle.due = -1 \/ throttle.due > clock

\* debounced(a); debounce(callback, timeout) is callback itself for timeout <= 0.
DebounceCall(a) ==
  /\ Len(tmCalls) < MaxTimerCalls
  /\ timersIdle
  /\ tmCalls' = Append(tmCalls, [at |-> clock, args |-> a, due |-> -1])
  /\ IF tmTimeout <= 0
       THEN /\ tmInvoked' = Append(tmInvoked, [at |-> clock, args |-> a])
            /\ UNCHANGED tmHandle
       ELSE /\ tmHandle' = debounced(tmHandle, a, tmTimeout, clock)
            /\ UNCHANGED tmInvoked
  /\ UNCHANGED <<clock, tmTimeout, throttle>>

\* The timeout set by the last call runs: callback(...args).
DebounceFires ==
  /\ tmHandle.due # -1
  /\ tmHandle.due <= clock
  /\ tmInvoked' = Append(tmInvoked, [at |-> clock, args |-> tmHandle.args])
  /\ tmHandle' = NoTimer
  /\ UNCHANGED <<clock, tmTimeout, tmCalls, throttle>>

\* A millisecond passes; the timeouts that are due have run.
ClockTick ==
  /\ clock < MaxClock
  /\ timersIdle
  /\ clock' = clock + 1
  /\ UNCHANGED <<tmTimeout, tmHandle, tmCalls, tmInvoked, throttle>>

DebounceInit ==
  /\ StoreIdle
  /\ SyncIdle
  /\ ExtIdle
  /\ ArrayIdle
  /\ ObjectIdle
  /\ ReducerIdle
  /\ ComposeIdle
  /\ clock = 0
  /\ tmTimeout \in DebounceTimeouts
  /\ tmHandle = NoTimer
  /\ tmCalls = <<>>
  /\ tmInvoked = <<>>
  /\ throttle = NoThrottle
  /\ PersistIdle
  /\ HydrateIdle

DebounceNext ==
  \/ \E a \in TimerArgs :
       DebounceCall(a) /\ UNCHANGED <<storeVars, syncVars, cacheVars, extVars, arrayVars, objectVars, reducerVars, composeVars, persistVars, hydrateVars>>
  \/ DebounceFires /\ UNCHANGED <<storeVars, syncVars, cacheVars, extVars, arrayVars, objectVars, reducerVars, composeVars, persistVars, hydrateVars>>
  \/ ClockTick /\ UNCHANGED <<storeVars, syncVars, cacheVars, extVars, arrayVars, objectVars, reducerVars, composeVars, persistVars, hydrateVars>>

\* ---------------------------------------------------------------------------
\* util-throttle.ts: throttled = throttle(callback, duration), called with one
\* argument.

ThrottleDurations == {0, 1, 2}

\* A throttled function that forgets the calls made while it is throttled.
callDropped(th, args, duration, t) ==
  IF th.throttled THEN [th |-> th, invoke |-> NoArgs]
  ELSE [th |-> [th EXCEPT !.throttled = TRUE, !.due = t + duration], invoke |-> args]

\* The function throttle returns: lastArgs = args while throttled, otherwise
\* callback(...args), throttled = true and setTimeout(restore, duration).
throttledCall(th, args, duration, t) ==
  IF th.throttled THEN [th |-> [th EXCEPT !.lastArgs = args], invoke |-> NoArgs]
  ELSE [th |-> [th EXCEPT !.throttled = TRUE, !.due = t + duration], invoke |-> args]

\* restore: throttled = false without lastArgs, otherwise
\* callback(...lastArgs), setTimeout(restore, duration) and lastArgs = null.
restore(th, duration, t) ==
  IF th.lastArgs = NoArgs
  THEN [th |-> [th EXCEPT !.throttled = FALSE, !.due = -1], invoke |-> NoArgs]
  ELSE [th |-> [th EXCEPT !.lastArgs = NoArgs, !.due = t + duration], invoke |-> th.lastArgs]

\* The callback's calls after a step that invoked it with args, or did not.
invokedAfter(args) ==
  IF args = NoArgs THEN tmInvoked ELSE Append(tmInvoked, [at |-> clock, args |-> args])

\* throttled(a); throttle(callback, duration) is callback itself for duration <= 0.
ThrottleCall(a) ==
  LET r == IF tmTimeout <= 0 THEN [th |-> throttle, invoke |-> a]
           ELSE throttledCall(throttle, a, tmTimeout, clock)
  IN /\ Len(tmCalls) < MaxTimerCalls
     /\ timersIdle
     /\ tmCalls' = Append(tmCalls, [at |-> clock, args |-> a, due |-> throttle.due])
     /\ throttle' = r.th
     /\ tmInvoked' = invokedAfter(r.invoke)
     /\ UNCHANGED <<clock, tmTimeout, tmHandle>>

\* The timeout of throttle runs restore.
ThrottleRestore ==
  LET r == restore(throttle, tmTimeout, clock)
  IN /\ throttle.due # -1
     /\ throttle.due <= clock
     /\ throttle' = r.th
     /\ tmInvoked' = invokedAfter(r.invoke)
     /\ UNCHANGED <<clock, tmTimeout, tmHandle, tmCalls>>

ThrottleInit ==
  /\ StoreIdle
  /\ SyncIdle
  /\ ExtIdle
  /\ ArrayIdle
  /\ ObjectIdle
  /\ ReducerIdle
  /\ ComposeIdle
  /\ clock = 0
  /\ tmTimeout \in ThrottleDurations
  /\ tmHandle = NoTimer
  /\ tmCalls = <<>>
  /\ tmInvoked = <<>>
  /\ throttle = NoThrottle
  /\ PersistIdle
  /\ HydrateIdle

ThrottleNext ==
  \/ \E a \in TimerArgs :
       ThrottleCall(a) /\ UNCHANGED <<storeVars, syncVars, cacheVars, extVars, arrayVars, objectVars, reducerVars, composeVars, persistVars, hydrateVars>>
  \/ ThrottleRestore /\ UNCHANGED <<storeVars, syncVars, cacheVars, extVars, arrayVars, objectVars, reducerVars, composeVars, persistVars, hydrateVars>>
  \/ ClockTick /\ UNCHANGED <<storeVars, syncVars, cacheVars, extVars, arrayVars, objectVars, reducerVars, composeVars, persistVars, hydrateVars>>

\* ---------------------------------------------------------------------------
\* plugin-persist.ts: extend(createStore(0)).with(persist({ name, delay, map,
\* filter, storage })); the states are the numbers 0..MaxVal.

PersistDelays == {0, 2}

\* JSON.stringify of a number: its decimal digits.
jsonStringify(v) == <<"0", "1", "2", "3", "4", "5", "6", "7", "8", "9">>[v + 1]

\* JSON.parse of the digits of a number.
jsonParse(str) == CHOOSE v \in 0..MaxVal : jsonStringify(v) = str

\* The items a storage can hold from earlier runs of the plugin.
StoredItems == {jsonStringify(v) : v \in 0..MaxVal}

\* options.map: (s) => s by default, or one that caps the number at 1.
mapState(map, v) == IF map = "capped" /\ v > 1 THEN 1 ELSE v

\* options.filter: () => true by default, or one that accepts positive numbers.
accepts(filter, v) == filter = "all" \/ v > 0

\* A subscriber that writes every state, accepted by the filter or not.
writtenUnfiltered(opts, newState) == jsonStringify(mapState(opts.map, newState))

\* The subscriber of the plugin: nothing when filter(newState) is false,
\* otherwise storage.setItem(name, JSON.stringify(map(newState))). The result
\* is the string written, NoItem when nothing is.
writtenFor(opts, newState) ==
  IF accepts(opts.filter, newState)
  THEN jsonStringify(mapState(opts.map, newState))
  ELSE NoItem

\* The setup of the plugin: const stored = storage.getItem(name);
\* if (stored) store.set(map(JSON.parse(stored))); store.subscribe(debounce(...)).
PersistSetup ==
  /\ ~psReady
  /\ psReady' = TRUE
  /\ psFound' = storage
  /\ state' = IF storage # NoItem
              THEN acceptedState(state, mapState(psOptions.map, jsonParse(storage)))
              ELSE state
  /\ UNCHANGED <<storage, psOptions, psWrites, timerVars>>

\* store.set(v) with a new state once the plugin is set up: the subscriber
\* runs, through debounce for a delay > 0 and directly otherwise.
PersistSet(v) ==
  LET item == writtenFor(psOptions, v)
      direct == tmTimeout <= 0
  IN /\ psReady
     /\ v # state
     /\ Len(tmCalls) < MaxTimerCalls
     /\ timersIdle
     /\ state' = acceptedState(state, v)
     /\ tmCalls' = Append(tmCalls, [at |-> clock, args |-> v, due |-> -1])
     /\ tmHandle' = IF direct THEN tmHandle ELSE debounced(tmHandle, v, tmTimeout, clock)
     /\ storage' = IF direct /\ item # NoItem THEN item ELSE storage
     /\ psWrites' = IF direct /\ item # NoItem
                    THEN Append(psWrites, [at |-> clock, value |-> item])
                    ELSE psWrites
     /\ UNCHANGED <<clock, tmTimeout, tmInvoked, throttle, psOptions, psReady, psFound>>

\* The timeout of the debounced subscriber runs.
PersistFires ==
  LET item == writtenFor(psOptions, tmHandle.args)
  IN /\ tmHandle.due # -1
     /\ tmHandle.due <= clock
     /\ tmHandle' = NoTimer
     /\ storage' = IF item # NoItem THEN item ELSE storage
     /\ psWrites' = IF item # NoItem
                    THEN Append(psWrites, [at |-> clock, value |-> item])
                    ELSE psWrites
     /\ UNCHANGED <<state, clock, tmTimeout, tmCalls, tmInvoked, throttle, psOptions, psReady, psFound>>

PersistInit ==
  /\ StoreIdle
  /\ SyncIdle
  /\ ExtIdle
  /\ ArrayIdle
  /\ ObjectIdle
  /\ ReducerIdle
  /\ ComposeIdle
  /\ clock = 0
  /\ tmTimeout \in PersistDelays
  /\ tmHandle = NoTimer
  /\ tmCalls = <<>>
  /\ tmInvoked = <<>>
  /\ throttle = NoThrottle
  /\ storage \in StoredItems \cup {NoItem}
  /\ psOptions \in [map : PersistMaps, filter : PersistFilters]
  /\ psReady = FALSE
  /\ psFound = NoItem
  /\ psWrites = <<>>
  /\ HydrateIdle

PersistNext ==
  \/ PersistSetup
       /\ UNCHANGED <<comparer, subscribers, regs, unsubscribed, received, stack, rounds, lastOp, lastRound,
                      syncVars, cacheVars, extVars, arrayVars, objectVars, reducerVars, composeVars, hydrateVars>>
  \/ \E v \in 0..MaxVal :
       PersistSet(v)
         /\ UNCHANGED <<comparer, subscribers, regs, unsubscribed, received, stack, rounds, lastOp, lastRound,
                        syncVars, cacheVars, extVars, arrayVars, objectVars, reducerVars, composeVars, hydrateVars>>
  \/ PersistFires
       /\ UNCHANGED <<comparer, subscribers, regs, unsubscribed, received, stack, rounds, lastOp, lastRound,
                      syncVars, cacheVars, extVars, arrayVars, objectVars, reducerVars, composeVars, hydrateVars>>
  \/ ClockTick /\ UNCHANGED <<storeVars, syncVars, cacheVars, extVars, arrayVars, objectVars, reducerVars, composeVars, persistVars, hydrateVars>>

\* ---------------------------------------------------------------------------
\* useHydrate.ts: useHydrate(hydrate, [arg], options) in a mounted component;
\* sync is useSync(hydrate)[0], whose promise settles as hydrate's does.

HydStaleTimes == {0, FiniteDuration, Infinity}
HydIntervals == {FiniteDuration, Infinity}

\* The promise of the last hydrate call is pending.
hydPending == hydCalls # <<>> /\ hydCalls[Len(hydCalls)].status = "pending"

\* The promise of the last hydrate call has rejected.
hydFailed == hydCalls # <<>> /\ hydCalls[Len(hydCalls)].status = "rejected"

\* A load whose await is in a try with a finally that resets loadingRef.
rejectedLoadReset(h) == [h EXCEPT !.loading = FALSE]

\* load up to its await: nothing while loadingRef or not staleRef, otherwise
\* loadingRef = true and sync(...argsRef.current).
load(h) ==
  IF h.loading \/ ~h.stale THEN [h |-> h, invoked |-> FALSE]
  ELSE [h |-> [h EXCEPT !.loading = TRUE], invoked |-> TRUE]

\* load after its await, the promise fulfilled: loadingRef = false, staleRef =
\* false for a staleTime > 0, hydratedRef = true, clearTimeout and, for a
\* finite staleTime > 0, a new timeout that sets staleRef.
loadResumed(h, staleTime) ==
  [h EXCEPT !.loading = FALSE,
            !.stale = IF staleTime > 0 THEN FALSE ELSE h.stale,
            !.hydrated = TRUE,
            !.staleTimer = staleTime > 0 /\ staleTime # Infinity]

\* load after its await, the promise rejected: await throws and the rest of
\* load does not run.
loadRejected(h) == h

\* The calls to hydrate after a load that invoked it, or did not.
callsAfter(r) ==
  IF r.invoked THEN Append(hydCalls, [args |-> r.h.argsRef, status |-> "pending"])
  ELSE hydCalls

\* The step record of a trigger that called load.
triggered(op, r) ==
  [op |-> op, invoked |-> r.invoked, stale |-> hyd.stale, failed |-> hydFailed,
   room |-> Len(hydCalls) < MaxHydCalls]

\* The first render and its effects: load() when onMount; argsRef.current = args.
HydMount ==
  LET r == IF hydOptions.onMount THEN load(hyd) ELSE [h |-> hyd, invoked |-> FALSE]
  IN /\ ~hyd.mounted
     /\ hyd' = [r.h EXCEPT !.mounted = TRUE]
     /\ hydCalls' = callsAfter(r)
     /\ lastHyd' = triggered("mount", r)
     /\ UNCHANGED <<hydOptions, hydChanges, hydWanted>>

\* A render with another arg: the effect of [load, args] runs,
\* argsRef.current = args and, once hydrated, staleRef.current = true and load().
HydArgsChange(a) ==
  LET h1 == [hyd EXCEPT !.args = a, !.argsRef = a,
                        !.stale = IF hyd.hydrated THEN TRUE ELSE hyd.stale]
      r == IF hyd.hydrated THEN load(h1) ELSE [h |-> h1, invoked |-> FALSE]
  IN /\ hyd.mounted
     /\ a # hyd.args
     /\ hydChanges < MaxArgChanges
     /\ r.invoked => Len(hydCalls) < MaxHydCalls
     /\ hyd' = r.h
     /\ hydCalls' = callsAfter(r)
     /\ hydChanges' = hydChanges + 1
     /\ hydWanted' = ~r.invoked
     /\ lastHyd' = [triggered("args", r) EXCEPT !.stale = h1.stale]
     /\ UNCHANGED hydOptions

\* The focus event, the online event or the interval calls load.
HydTrigger(op) ==
  LET r == load(hyd)
  IN /\ hyd.mounted
     /\ op = "focus" => hydOptions.onFocus
     /\ op = "online" => hydOptions.onOnline
     /\ op = "interval" => hydOptions.interval # Infinity
     /\ r.invoked => Len(hydCalls) < MaxHydCalls
     /\ hyd' = r.h
     /\ hydCalls' = callsAfter(r)
     /\ hydWanted' = (hydWanted /\ ~r.invoked)
     /\ lastHyd' = triggered(op, r)
     /\ UNCHANGED <<hydOptions, hydChanges>>

\* The promise of the hydrate call under way settles and load goes on.
HydSettle(ok) ==
  /\ hydPending
  /\ hydCalls' = [hydCalls EXCEPT ![Len(hydCalls)].status =
                    IF ok THEN "fulfilled" ELSE "rejected"]
  /\ hyd' = IF ok THEN loadResumed(hyd, hydOptions.staleTime) ELSE loadRejected(hyd)
  /\ lastHyd' = [NoHyd EXCEPT !.op = "settle"]
  /\ UNCHANGED <<hydOptions, hydChanges, hydWanted>>

\* The timeout set by load runs: staleRef.current = true.
HydStaleTimer ==
  /\ hyd.staleTimer
  /\ hyd' = [hyd EXCEPT !.stale = TRUE, !.staleTimer = FALSE]
  /\ lastHyd' = [NoHyd EXCEPT !.op = "stale"]
  /\ UNCHANGED <<hydOptions, hydCalls, hydChanges, hydWanted>>

HydrateInit ==
  /\ StoreIdle
  /\ SyncIdle
  /\ ExtIdle
  /\ ArrayIdle
  /\ ObjectIdle
  /\ ReducerIdle
  /\ ComposeIdle
  /\ TimerIdle
  /\ PersistIdle
  /\ hyd = NewHook
  /\ hydOptions \in [onMount : BOOLEAN, onFocus : BOOLEAN, onOnline : BOOLEAN,
                     interval : HydIntervals, staleTime : HydStaleTimes]
  /\ hydCalls = <<>>
  /\ hydChanges = 0
  /\ hydWanted = FALSE
  /\ lastHyd = NoHyd

\* The variables the hook leaves alone.
restOfHydrate ==
  <<storeVars, syncVars, cacheVars, extVars, arrayVars, objectVars, reducerVars, composeVars,
    timerVars, persistVars>>

HydSettles == (\E ok \in BOOLEAN : HydSettle(ok)) /\ UNCHANGED restOfHydrate

HydStaleTimerRuns == HydStaleTimer /\ UNCHANGED restOfHydrate

HydIntervalRuns == HydTrigger("interval") /\ UNCHANGED restOfHydrate

HydrateNext ==
  \/ HydMount /\ UNCHANGED restOfHydrate
  \/ \E a \in HydArgs : HydArgsChange(a) /\ UNCHANGED restOfHydrate
  \/ \E op \in {"focus", "online"} : HydTrigger(op) /\ UNCHANGED restOfHydrate
  \/ HydIntervalRuns
  \/ HydSettles
  \/ HydStaleTimerRuns


vars == <<storeVars, syncVars, cacheVars, extVars, pluginVars>>

Init == StoreInit /\ SyncIdle /\ ExtIdle /\ PluginIdle

\* The store on its own: no sync plugin is installed.
Next ==
  \/ \E cb \in Callbacks : Subscribe(cb) /\ UNCHANGED <<syncVars, cacheVars, extVars, pluginVars>>
  \/ \E reg \in 1..MaxSubs : Unsubscribe(reg) /\ UNCHANGED <<syncVars, cacheVars, extVars, pluginVars>>
  \/ \E next \in Settables, eqArg \in Comparers \cup {"none"} : Set(next, eqArg) /\ UNCHANGED <<syncVars, cacheVars, extVars, pluginVars>>
  \/ DeliverPlain /\ UNCHANGED <<syncVars, cacheVars, extVars, pluginVars>>
  \/ \E cb \in Callbacks : DeliverSubscribe(cb) /\ UNCHANGED <<syncVars, cacheVars, extVars, pluginVars>>
  \/ \E reg \in 1..MaxSubs : DeliverUnsubscribe(reg) /\ UNCHANGED <<syncVars, cacheVars, extVars, pluginVars>>
  \/ \E next \in Settables, eqArg \in Comparers \cup {"none"} : DeliverSet(next, eqArg) /\ UNCHANGED <<syncVars, cacheVars, extVars, pluginVars>>
  \/ DeliverThrow /\ UNCHANGED <<syncVars, cacheVars, extVars, pluginVars>>
  \/ Return /\ UNCHANGED <<syncVars, cacheVars, extVars, pluginVars>>

Spec == Init /\ [][Next]_vars

SpecSync == SyncInit /\ [][SyncNext]_vars

SpecSync2 == SyncInit /\ [][Sync2Next]_vars

SpecWindow == SyncInit /\ [][WindowNext]_vars

SpecCache == CacheInit /\ [][CacheNext]_vars

SpecExtend == ExtInit /\ [][ExtNext]_vars

SpecDedupe == DedupeInit /\ [][DedupeNext]_vars

SpecCompose == ComposeInit /\ [][ComposeNext]_vars

SpecDebounce == DebounceInit /\ [][DebounceNext]_vars

SpecPersist == PersistInit /\ [][PersistNext]_vars

SpecHydrate == HydrateInit /\ [][HydrateNext]_vars

\* The promise of a hydrate call settles, a timeout that was set runs and an
\* interval that was set keeps running; the events and the renders with other
\* args come when they come.
SpecHydrateFair ==
  /\ HydrateInit /\ [][HydrateNext]_vars
  /\ WF_vars(HydSettles) /\ WF_vars(HydStaleTimerRuns) /\ WF_vars(HydIntervalRuns)

SpecThrottle == ThrottleInit /\ [][ThrottleNext]_vars

SpecArray == ArrayInit /\ [][ArrayNext]_vars

SpecObject == ObjectInit /\ [][ObjectNext]_vars

SpecReducer == ReducerInit /\ [][ReducerNext]_vars

\* ------------------------------------------------------------ store: claims

\* The registrations of a sequence of array elements or deliveries.
regsOf(seq) == [k \in 1..Len(seq) |-> seq[k].reg]

C2_NotifiedInSubscriptionOrderBeforeReturn ==
  /\ \A k \in 1..(Len(subscribers) - 1) : subscribers[k].reg < subscribers[k + 1].reg
  /\ lastRound.done =>
       /\ regsOf(lastRound.delivered) = regsOf(lastRound.start)
       /\ \A k \in 1..(Len(lastRound.delivered) - 1) :
            lastRound.delivered[k].reg < lastRound.delivered[k + 1].reg

\* A round over callback 2, subscribed first, and callback 1, subscribed second.
C2_Witness ==
  /\ lastOp.op = "return" /\ stack = <<>>
  /\ Len(lastRound.delivered) = 2
  /\ lastRound.delivered[1].cb = 2 /\ lastRound.delivered[2].cb = 1

\* C3 as stated: with a callback subscribed twice, one call of one of the two
\* unsubscribe functions leaves the other registration in place.
C3_UnsubscribeRemovesOnlyItsRegistration ==
  (lastOp.op = "unsubscribe" /\ lastOp.before = 2) => lastOp.after = 1

\* C4: subscribing or unsubscribing from inside a callback does not change who
\* is called in the round in progress: exactly the subscribers registered when
\* the round began, each once; the next accepted update uses the changed list.
C4_RoundUnaffectedBySubscribeDuringIt ==
  /\ (lastRound.done /\ lastRound.mutated) =>
       regsOf(lastRound.delivered) = regsOf(lastRound.start)
  /\ \A k \in 1..Len(stack) :
       /\ stack[k].i <= Len(stack[k].start) + 1
       /\ regsOf(stack[k].delivered) = regsOf(SubSeq(stack[k].start, 1, stack[k].i - 1))
  /\ (lastOp.op = "set" /\ lastOp.began) =>
       regsOf(stack[Len(stack)].arr) = regsOf(subscribers)

\* A round of two callbacks during which one registration was removed and one
\* added: both original ones were called, the added one was not.
C4_Witness ==
  /\ lastOp.op = "return"
  /\ lastRound.mutated
  /\ Len(lastRound.start) = 2
  /\ \E k \in 1..2 : \A j \in 1..Len(subscribers) : subscribers[j].reg # lastRound.start[k].reg
  /\ \E j \in 1..Len(subscribers) :
       /\ \A k \in 1..2 : subscribers[j].reg # lastRound.start[k].reg
       /\ \A k \in 1..Len(lastRound.delivered) : lastRound.delivered[k].reg # subscribers[j].reg

\* C5: when the updater or the comparer throws, the caller of set gets the
\* exception, the state is the one before the call and no round was started.
C5_ThrowingUpdaterOrComparerLeavesStore ==
  (lastOp.op = "set" /\ lastOp.verdict = "throw") =>
    /\ state = lastOp.pre /\ lastOp.post = lastOp.pre
    /\ ~lastOp.began
    /\ stack = <<>>

\* The comparer threw on a value that differs from the state, with a subscriber.
C5_Witness ==
  /\ lastOp.op = "set" /\ lastOp.verdict = "throw"
  /\ lastOp.res # -1 /\ lastOp.res # lastOp.pre
  /\ Len(subscribers) > 0

\* ------------------------------------------------------------- sync: claims

DefaultDedupe == options.dedupeDuration = Infinity
DefaultOptions == options.cacheDuration = 0 /\ options.dedupeDuration = Infinity

C7_RejectionReachesEveryCaller ==
  (lastSync.op = "settle" /\ lastSync.status = "rejected") => lastSync.outcome = "rejected"

\* C9 as stated: with cache duration D > 0, a call made in the D milliseconds
\* after a successful settlement of its identity is answered with the settled
\* result and does not call the underlying function; with D = 0 a call made
\* after the settlement calls it again.
C9_SettledResultReplayedForCacheDuration ==
  lastSync.op = "call" =>
    /\ lastSync.fresh => (~lastSync.loaded /\ lastSync.status = "fulfilled")
    /\ (options.cacheDuration = 0 /\ ~lastSync.hadPending) => lastSync.loaded

C11_PullResultsWrittenInSettleOrder ==
  (/\ lastSync.op = "settle" /\ lastSync.fn = "pull" /\ lastSync.status = "fulfilled"
   /\ \E k \in 1..Len(promises) :
        k # lastSync.p /\ promises[k].fn = "pull" /\ promises[k].id # lastSync.id)
  => state = lastSync.resolved

\* The pull called first settles last, with 0, after the pull called second
\* has put 1 into the store: the store ends with 0.
C11_Witness ==
  /\ lastSync.op = "settle" /\ lastSync.fn = "pull" /\ lastSync.status = "fulfilled"
  /\ lastSync.p = 1 /\ Len(promises) = 2
  /\ promises[2].fn = "pull" /\ promises[2].status = "fulfilled"
  /\ promises[2].id # lastSync.id
  /\ lastSync.pre = 1 /\ lastSync.resolved = 0 /\ state = 0

\* C12 as stated: for every dedupeDuration W > 0, a call made while an earlier
\* call with its identity is pending, less than W milliseconds after that call
\* was issued, does not call the underlying function.
C12_PendingCallSharedWithinWindow ==
  (/\ lastSync.op = "call"
   /\ \E k \in 1..Len(issued) :
        /\ lastSync.loaded => k # lastSync.p
        /\ promises[k].status = "pending"
        /\ promises[k].id = lastSync.id
        /\ options.dedupeDuration = Infinity \/ now < issued[k] + options.dedupeDuration)
  => ~lastSync.loaded

\* ------------------------------------------------------------ cache: claims

\* C13 as stated, for the values get can return: after set(k, v) with the
\* forever lifetime, and until k is set or evicted again, get(k) returns v at
\* every later time, whatever was done to k before that set.
C13_ForeverValueStaysUntilEvicted ==
  \A k \in CacheKeys :
    (written[k].kind = "set" /\ written[k].lifetime = Infinity /\ written[k].v # 0)
      => getResult(cache, k) = written[k].v

\* C14 as stated: for every value v, get(k, factory) on a miss calls the
\* factory once, returns v and stores it, so that a get(k) right after it
\* returns v; on a stored entry it returns the entry and calls no factory.
C14_ReadThroughForEveryValue ==
  lastCache.op = "getWith" =>
    IF lastCache.present
    THEN lastCache.invoked = 0
    ELSE /\ lastCache.invoked = 1
         /\ lastCache.result = lastCache.v
         /\ lastCache.lifetime > 0 => getResult(cache, lastCache.key) = lastCache.v

\* C15 as stated: after set(k, v, L) with a finite L > 0 on a key not used
\* before, and until k is set or evicted again, get(k) returns v at every
\* time before L has elapsed and null at every time after L has elapsed.
C15_FiniteLifetimeValueThenAbsent ==
  \A k \in CacheKeys :
    (/\ written[k].kind = "set" /\ written[k].first
     /\ written[k].lifetime # Infinity)
    => /\ now < written[k].at + written[k].lifetime => getResult(cache, k) = written[k].v
       /\ now > written[k].at + written[k].lifetime => getResult(cache, k) = Null

\* C16 as stated: set(k, v, L) with L <= 0 returns v and a get(k) right after
\* it returns null, whatever the cache held for k before.
C16_NonPositiveLifetimeLeavesKeyAbsent ==
  (lastCache.op = "set" /\ lastCache.lifetime <= 0) =>
    /\ lastCache.result = lastCache.v
    /\ getResult(cache, lastCache.key) = Null

\* ----------------------------------------------------------- extend: claims

C18_ThrowingPluginMergesNothing ==
  (lastExt.op = "with" /\ revision = "deep" /\ lastExt.end = "throw")
  => (lastExt.threw /\ host = lastExt.before)

\* The function returned by the plugin throws, on a host that plugins have
\* extended before.
C18_Witness ==
  /\ lastExt.op = "with" /\ lastExt.via = "method" /\ revision = "deep"
  /\ lastExt.end = "throw" /\ lastExt.depth = 2
  /\ lastExt.threw
  /\ host["b"] = "v2" /\ host["with"] = "with"

\* C19 as stated: seal removes with and seal, and after seal no attempt to
\* add, replace or delete a property changes the object.
C19_SealedObjectImmutable ==
  /\ lastExt.op = "seal" => (host["with"] = "none" /\ host["seal"] = "none")
  /\ (lastExt.op = "mutate" /\ lastExt.wasSealed) => host = lastExt.before

\* C20 as stated: once seal has been called, no call of with, a call through
\* an earlier reference included, changes the object: it adds no capability
\* and does not put with or seal back.
C20_NoPluginAfterSeal ==
  (lastExt.op = "with" /\ lastExt.wasSealed) => host = lastExt.before

C22_SelfReferenceContributesNothing ==
  (/\ lastExt.op = "with" /\ lastExt.via = "method" /\ revision = "deep"
   /\ lastExt.end \in {"host", "self"})
  => (~lastExt.threw /\ ~lastExt.hung /\ host = lastExt.before)

\* C23 as stated: sort and reverse install a new array and leave every array
\* that existed before the call as it was - the array handed to subscribers as
\* oldState and an array got from get() earlier keep their element order.
C23_SortReverseLeaveOldArraysUntouched ==
  (lastArr.op \in {"sort", "reverse"} /\ lastArr.oldRef # NullRef)
  => /\ arr # lastArr.oldRef
     /\ \A r \in DOMAIN lastArr.heapBefore : heap[r] = lastArr.heapBefore[r]
     /\ lastArr.oldStateSeen = lastArr.before
     /\ held.ref # NullRef => heap[held.ref] = held.snap

\* C24: on an object state s, patch(u) - u given or computed by the updater
\* from s - leaves s with the keys of u overwritten and every other key kept;
\* remove(k) leaves s without k and every other key kept; size() is the number
\* of keys of the current state.
C24_PatchRemoveSize ==
  /\ (lastObj.op = "patch" /\ ~lastObj.before.null /\ ~lastObj.threw) =>
       /\ ~objState.null
       /\ lastObj.update = "aFromB" =>
            lastObj.u = [k \in ObjKeys |-> IF k = "a" THEN readProp(lastObj.before.props, "b")
                                           ELSE Absent]
       /\ lastObj.update = "bFromA" =>
            lastObj.u = [k \in ObjKeys |-> IF k = "b" THEN readProp(lastObj.before.props, "a")
                                           ELSE Absent]
       /\ \A k \in ObjKeys :
            objState.props[k] = IF lastObj.u[k] # Absent THEN lastObj.u[k]
                                ELSE lastObj.before.props[k]
  /\ (lastObj.op = "remove" /\ ~lastObj.before.null) =>
       /\ ~objState.null
       /\ objState.props[lastObj.key] = Absent
       /\ \A k \in ObjKeys \ {lastObj.key} : objState.props[k] = lastObj.before.props[k]
  /\ (lastObj.op = "size" /\ ~objState.null) =>
       lastObj.result = Cardinality({k \in ObjKeys : objState.props[k] # Absent})

C24_Witness ==
  /\ lastObj.op = "patch" /\ lastObj.update = "bFromA" /\ ~lastObj.before.null
  /\ lastObj.before.props["a"] = "one" /\ lastObj.before.props["b"] = "two"
  /\ objState.props = [a |-> "one", b |-> "one"]

\* C25: push sets the state to a new array holding the old elements followed
\* by the values, unshift to one holding the values followed by the old
\* elements; no array that existed before the call is modified; after push
\* and unshift calls only, the state equals a plain array given the same calls.
C25_PushUnshiftBuildNewArrays ==
  /\ lastArr.op = "push" =>
       /\ arr \notin DOMAIN lastArr.heapBefore
       /\ heap[arr] = lastArr.before \o lastArr.values
  /\ lastArr.op = "unshift" =>
       /\ arr \notin DOMAIN lastArr.heapBefore
       /\ heap[arr] = lastArr.values \o lastArr.before
  /\ lastArr.op \in {"push", "unshift"} =>
       /\ \A r \in DOMAIN lastArr.heapBefore : heap[r] = lastArr.heapBefore[r]
       /\ lastArr.oldStateSeen = lastArr.before
       /\ held.ref # NullRef => heap[held.ref] = lastArr.heapBefore[held.ref]
       /\ onlyPushes => heap[arr] = plain

C25_Witness ==
  /\ lastArr.op = "unshift" /\ lastArr.oldRef # NullRef
  /\ lastArr.values # <<>> /\ lastArr.before # <<>>
  /\ lastArr.values # reversed(lastArr.values)
  /\ held.ref = lastArr.oldRef
  /\ onlyPushes /\ Len(heap) >= 3
  /\ heap[arr] # lastArr.before \o lastArr.values

\* C26 as stated: dispatch(action) sets the state to reducer(get(), action),
\* notifies the store's subscribers only when the state changed, and calls
\* every registered listener - every listen call whose unlisten has not been
\* called - exactly once, and no listener whose unlisten has been called.
C26_DispatchReducesThenCallsEveryListener ==
  lastRed.op = "dispatch" =>
    /\ redState = IF lastRed.action = "increment"
                    THEN (lastRed.before + 1) % (MaxCount + 1) ELSE lastRed.before
    /\ lastRed.notified = (redState # lastRed.before)
    /\ \A reg \in 1..Len(listenRegs) :
         Cardinality({i \in 1..Len(lastRed.calls) : lastRed.calls[i] = reg})
           = IF listenRegs[reg].unlistened THEN 0 ELSE 1

\* C27 as stated: a registration whose unsubscribe function was called before
\* a set call is not called in the round of that set; and calling an
\* unsubscribe function a second time removes no registration.
C27_UnsubscribedNotCalledAndSecondCallNoOp ==
  /\ \A k \in 1..Len(stack) : \A i \in 1..Len(stack[k].delivered) :
       stack[k].delivered[i].reg \notin stack[k].gone
  /\ lastRound.done => \A i \in 1..Len(lastRound.delivered) :
       lastRound.delivered[i].reg \notin lastRound.gone
  /\ (lastOp.op = "unsubscribe" /\ lastOp.again) => lastOp.after = lastOp.before

\* C28 as stated: when set(s) has returned, get() gives a value equal to s
\* under the store's comparer.
C28_GetAfterSetEqualsUnderComparer ==
  /\ (lastOp.op = "set" /\ lastOp.direct /\ lastOp.verdict = "eq" /\ stack = <<>>) =>
       equalsResult(effectiveEquals("none", comparer), state, lastOp.res) = "eq"
  /\ (lastOp.op = "return" /\ stack = <<>> /\ lastRound.direct) =>
       equalsResult(effectiveEquals("none", comparer), state, lastRound.new) = "eq"

\* C28, amended: when set(s) has returned and no subscriber made an update of
\* its own during the notification, get() gives a value equal to s under the
\* store's comparer.
C28_GetAfterSetEqualsUnlessUpdatedInside ==
  /\ (lastOp.op = "set" /\ lastOp.direct /\ lastOp.verdict = "eq" /\ stack = <<>>) =>
       equalsResult(effectiveEquals("none", comparer), state, lastOp.res) = "eq"
  /\ (lastOp.op = "return" /\ stack = <<>> /\ lastRound.direct /\ ~lastRound.nested) =>
       equalsResult(effectiveEquals("none", comparer), state, lastRound.new) = "eq"

C28_Witness ==
  /\ lastOp.op = "return" /\ stack = <<>> /\ lastRound.direct /\ ~lastRound.nested
  /\ comparer = "mod2" /\ rounds = MaxRounds
  /\ Len(lastRound.delivered) >= 1
  /\ state = lastRound.new

\* C29 as stated: with the default timeout, a call whose hash is that of a
\* call still pending returns the promise of that call and does not call the
\* function again, whatever calls with other hashes came in between.
C29_PendingCallSharedWhateverElseIsCalled ==
  (/\ lastSync.op = "call" /\ lastSync.hadPending
   /\ options.dedupeDuration = Infinity)
  => /\ ~lastSync.loaded
     /\ promises[lastSync.p].id = lastSync.id
     /\ promises[lastSync.p].status = "pending"

\* C30 as stated: with timeout 0 every call calls the function, also while an
\* identical call is pending; with timeout Infinity a call identical to a
\* pending one never calls the function.
C30_TimeoutZeroDisablesInfinityDedupes ==
  /\ (lastSync.op = "call" /\ options.dedupeDuration = 0) => lastSync.loaded
  /\ (lastSync.op = "call" /\ options.dedupeDuration = Infinity /\ lastSync.hadPending)
       => ~lastSync.loaded

\* C35 as stated: with updates made from inside callbacks, every registration
\* is called in the order of the updates - each call's oldState is the
\* newState of the call before it - and when the outermost set returns, the
\* last call of every registration still subscribed carried the final state.
C35_ReentrantNotificationsInUpdateOrder ==
  /\ \A r \in 1..MaxSubs : received[r].ordered
  /\ (lastOp.op = "return" /\ stack = <<>>) =>
       \A i \in 1..Len(subscribers) :
         received[subscribers[i].reg].new \in {-1, state}

\* C36: when a subscriber throws, the exception ends the set call and every
\* set call around it (no forEach goes on, so the subscribers after the
\* throwing one are not called for that update), and the state stays what it
\* was when the subscriber was called: the new state of that set call unless
\* a callback of the round had set another one, and never the old state put
\* back.
C36_ThrowingSubscriberEndsRoundKeepsState ==
  lastOp.op = "throw" =>
    /\ stack = <<>>
    /\ state = lastOp.post
    /\ (~lastOp.began /\ ~lastOp.again) =>
         /\ state = lastOp.res
         /\ Cardinality({r \in 1..MaxSubs : received[r].new # -1}) = lastOp.before
    /\ received[lastOp.reg].new = lastOp.res

\* A first subscriber of two throws in a round that is not nested.
C36_Witness ==
  /\ lastOp.op = "throw" /\ ~lastOp.began /\ ~lastOp.again
  /\ lastOp.before = 1 /\ lastOp.after = 2
  /\ state = lastOp.res /\ state # lastOp.pre
  /\ \A r \in 1..MaxSubs : r # lastOp.reg => received[r].new = -1

\* C37 as stated: a call to a function of the sync plugin is answered with a
\* promise made by a call of that same function (the new one or an earlier
\* one), never with the promise of another function of the plugin.
C37_CallAnsweredByOwnFunctionsPromise ==
  lastSync.op = "call" => promises[lastSync.p].fn = lastSync.fn

\* C38: every pull call whose promise is fulfilled runs store.set with the
\* resolved value - the callers waiting when the promise settles, and a call
\* answered from the cache with a promise fulfilled earlier: after either, the
\* store holds that value, whatever it held before.
C38_EveryResolvedPullSetsTheStore ==
  /\ (lastSync.op = "call" /\ lastSync.fn = "pull" /\ lastSync.status = "fulfilled") =>
       /\ ~lastSync.loaded
       /\ state = promises[lastSync.p].value
  /\ (lastSync.op = "settle" /\ lastSync.fn = "pull" /\ lastSync.status = "fulfilled") =>
       state = lastSync.resolved

\* A pull answered from the cache with a value fulfilled earlier, after
\* another pull had put a different value into the store.
C38_Witness ==
  /\ lastSync.op = "call" /\ lastSync.fn = "pull" /\ lastSync.status = "fulfilled"
  /\ ~lastSync.loaded
  /\ lastSync.pre # lastSync.value
  /\ state = lastSync.value
  /\ \E k \in 1..Len(promises) :
       /\ k # lastSync.p /\ promises[k].fn = "pull"
       /\ promises[k].status = "fulfilled" /\ promises[k].value = lastSync.pre

\* C40 as stated: every patch and every remove call leaves the object that
\* was the state as it was, makes a new object the state and notifies the
\* subscribers, whether or not a key changed.
C40_PatchRemoveAlwaysInstallNewObject ==
  (lastObj.op \in {"patch", "remove"} /\ ~lastObj.threw) =>
    /\ lastObj.notified
    /\ objId # objHeld.ref
    /\ ~lastObj.before.null => objHeld.props = lastObj.before.props

\* C40 on an object state: a patch whose updater returns and a remove made
\* while the state is an object leave the object that was the state as it
\* was, make a new object the state and notify the subscribers, whether or
\* not a key changed; a patch on a null state makes a new object the state and
\* notifies too. remove on a null state does nothing.
C40_PatchRemoveOnObjectInstallNewObject ==
  /\ (/\ lastObj.op \in {"patch", "remove"} /\ ~lastObj.threw
      /\ ~(lastObj.op = "remove" /\ lastObj.before.null)) =>
       /\ lastObj.notified
       /\ objId # objHeld.ref
       /\ ~objState.null
       /\ ~lastObj.before.null => objHeld.props = lastObj.before.props
  /\ (lastObj.op = "remove" /\ lastObj.before.null) =>
       ~lastObj.notified /\ objState.null /\ objId = 0

\* A remove of a key the object does not have: the properties are the same,
\* the object is another one and the subscribers were notified.
C40_Witness ==
  /\ lastObj.op = "remove" /\ ~lastObj.before.null
  /\ lastObj.before.props[lastObj.key] = Absent
  /\ lastObj.before.props["a"] = "one"
  /\ objState.props = lastObj.before.props
  /\ objHeld.props = lastObj.before.props
  /\ objId # objHeld.ref
  /\ lastObj.notified

\* The calls after which the debounced function was left alone for its timeout.
burstEnds ==
  {i \in 1..Len(tmCalls) :
     IF i < Len(tmCalls) THEN tmCalls[i + 1].at - tmCalls[i].at >= tmTimeout
     ELSE tmHandle = NoTimer}

\* The state changes after which the store was left alone for the delay and
\* whose state the filter accepts.
persistedChanges ==
  {i \in burstEnds : accepts(psOptions.filter, tmCalls[i].args)}

\* C31 as stated: after setup and before any change the store holds the value
\* found in storage; the plugin has written once for every burst of changes
\* that ended with a state the filter accepts, delay ms after the last change
\* (at once for a delay of 0), and the string written is the serialization of
\* that state; storage holds the last string written.
C31_StorageHoldsLastStateAfterBurst ==
  psReady =>
    /\ (psFound # NoItem /\ tmCalls = <<>>) => state = jsonParse(psFound)
    /\ Len(psWrites) = Cardinality(persistedChanges)
    /\ \A k \in 1..Len(psWrites) :
         LET i == CHOOSE e \in persistedChanges :
                    Cardinality({j \in persistedChanges : j <= e}) = k
         IN psWrites[k] = [at |-> tmCalls[i].at + tmTimeout,
                           value |-> jsonStringify(tmCalls[i].args)]
    /\ storage = IF psWrites = <<>> THEN psFound ELSE psWrites[Len(psWrites)].value

\* C31 with the map option: after setup and before any change the store holds
\* map of the value found in storage; the plugin has written once for every
\* burst of changes that ended with a state the filter accepts, delay ms after
\* the last change (at once for a delay of 0), and the string written is the
\* serialization of map of that state; storage holds the last string written,
\* and a timeout that has not run belongs to the last change.
C31_StorageHoldsMappedLastStateAfterBurst ==
  psReady =>
    /\ (psFound # NoItem /\ tmCalls = <<>>) =>
         state = mapState(psOptions.map, jsonParse(psFound))
    /\ Len(psWrites) = Cardinality(persistedChanges)
    /\ \A k \in 1..Len(psWrites) :
         LET i == CHOOSE e \in persistedChanges :
                    Cardinality({j \in persistedChanges : j <= e}) = k
         IN psWrites[k] = [at |-> tmCalls[i].at + tmTimeout,
                           value |-> jsonStringify(mapState(psOptions.map, tmCalls[i].args))]
    /\ storage = IF psWrites = <<>> THEN psFound ELSE psWrites[Len(psWrites)].value
    /\ tmHandle # NoTimer =>
         /\ tmHandle.due = tmCalls[Len(tmCalls)].at + tmTimeout
         /\ tmHandle.args = state
         /\ tmHandle.due >= clock

\* A stored "1" was loaded, then two changes a millisecond apart under a delay
\* of 2: one write, 2 ms after the second change, of the last state.
C31_Witness ==
  /\ psReady /\ psFound = "1" /\ tmTimeout = 2
  /\ Len(tmCalls) = 2 /\ tmCalls[2].at = tmCalls[1].at + 1
  /\ state = 2 /\ psOptions = [map |-> "identity", filter |-> "positive"]
  /\ psWrites = <<[at |-> tmCalls[2].at + 2, value |-> "2"]>>
  /\ storage = "2"

\* C32: with a timeout t > 0 the callback is invoked once for every burst of
\* calls less than t apart, t after the last call of the burst and with its
\* arguments, and at no other moment; a timeout that has not run yet belongs
\* to the last call and is not overdue. With t <= 0 every call invokes the
\* callback at once.
C32_DebounceInvokesOncePerBurst ==
  /\ tmTimeout > 0 =>
       /\ Len(tmInvoked) = Cardinality(burstEnds)
       /\ \A k \in 1..Len(tmInvoked) :
            LET i == CHOOSE e \in burstEnds : Cardinality({j \in burstEnds : j <= e}) = k
            IN tmInvoked[k] = [at |-> tmCalls[i].at + tmTimeout, args |-> tmCalls[i].args]
       /\ tmHandle # NoTimer =>
            /\ tmCalls # <<>>
            /\ tmHandle.due = tmCalls[Len(tmCalls)].at + tmTimeout
            /\ tmHandle.args = tmCalls[Len(tmCalls)].args
            /\ tmHandle.due >= clock
  /\ tmTimeout <= 0 =>
       /\ Len(tmInvoked) = Len(tmCalls)
       /\ \A k \in 1..Len(tmCalls) :
            tmInvoked[k] = [at |-> tmCalls[k].at, args |-> tmCalls[k].args]

\* Two calls a millisecond apart with different arguments, timeout 2: one
\* invocation, 2 ms after the second call, with the second call's argument.
C32_Witness ==
  /\ tmTimeout = 2 /\ Len(tmCalls) = 2 /\ throttle = NoThrottle
  /\ tmCalls[2].at = tmCalls[1].at + 1
  /\ tmCalls[1].args # tmCalls[2].args
  /\ tmInvoked = <<[at |-> tmCalls[2].at + 2, args |-> tmCalls[2].args]>>

\* The calls made while throttled that no later call of the same period replaced.
lastOfPeriod ==
  {i \in 1..Len(tmCalls) :
     /\ tmCalls[i].due # -1
     /\ \A j \in 1..Len(tmCalls) : j > i => tmCalls[j].due # tmCalls[i].due}

\* C33: with a duration d > 0 the first call invokes the callback at once,
\* two invocations are never less than d apart, and the last call made during
\* a throttled period is invoked with its arguments when the period ends: once
\* no timeout is under way the callback's last invocation has the arguments of
\* the last call. With d <= 0 every call invokes the callback at once.
C33_ThrottleSpacesAndKeepsLastCall ==
  /\ tmTimeout <= 0 =>
       /\ Len(tmInvoked) = Len(tmCalls)
       /\ \A k \in 1..Len(tmCalls) :
            tmInvoked[k] = [at |-> tmCalls[k].at, args |-> tmCalls[k].args]
  /\ tmTimeout > 0 =>
    /\ tmCalls # <<>> =>
         /\ tmInvoked # <<>>
         /\ tmInvoked[1] = [at |-> tmCalls[1].at, args |-> tmCalls[1].args]
    /\ \A k \in 1..Len(tmInvoked) :
         k > 1 => tmInvoked[k].at - tmInvoked[k - 1].at >= tmTimeout
    /\ \A i \in lastOfPeriod :
         (clock > tmCalls[i].due \/ (clock = tmCalls[i].due /\ throttle.due # clock)) =>
           Cardinality({k \in 1..Len(tmInvoked) : tmInvoked[k].at = tmCalls[i].due}) = 1
           /\ \E k \in 1..Len(tmInvoked) :
                tmInvoked[k] = [at |-> tmCalls[i].due, args |-> tmCalls[i].args]
    /\ (throttle.due = -1 /\ tmCalls # <<>>) =>
         tmInvoked[Len(tmInvoked)].args = tmCalls[Len(tmCalls)].args
    /\ Len(tmInvoked) <= Len(tmCalls)

\* Three calls, the second and third while throttled by the first: the
\* callback ran for the first at once and for the third when the period ended.
C33_Witness ==
  /\ tmTimeout = 2 /\ Len(tmCalls) = 3 /\ tmHandle = NoTimer
  /\ tmCalls[2].due = tmCalls[1].at + 2 /\ tmCalls[3].due = tmCalls[2].due
  /\ tmCalls[2].args # tmCalls[3].args
  /\ tmInvoked = <<[at |-> tmCalls[1].at, args |-> tmCalls[1].args],
                   [at |-> tmCalls[1].at + 2, args |-> tmCalls[3].args]>>

\* No promise of a hydrate call has rejected.
noneRejected == \A k \in 1..Len(hydCalls) : hydCalls[k].status # "rejected"

\* C34 as stated: once the args have changed, hydrate is eventually called
\* with the new args, whatever the staleTime and whether or not a hydration
\* was under way (as long as no hydration fails and while hydrate may still be
\* called within the bound).
C34_ArgsChangeEventuallyHydrates ==
  (hydWanted /\ noneRejected)
    ~> (~hydWanted \/ ~noneRejected \/ Len(hydCalls) >= MaxHydCalls)

\* C39 as stated: a focus event, an online event, an interval tick or a change
\* of args that comes after the promise of the last hydrate call has rejected,
\* while the data is stale, calls hydrate again.
C39_TriggerAfterFailureHydratesAgain ==
  (/\ lastHyd.op \in {"focus", "online", "interval", "args"}
   /\ lastHyd.failed /\ lastHyd.stale /\ lastHyd.room)
  => lastHyd.invoked

\* C8 as stated: in plugin-sync.ts, for every cacheTime, a failure is not kept
\* as a cached result: no call is answered with a promise that has already
\* rejected, it calls the underlying function again.
C8_FailureIsNotCached ==
  lastSync.op = "call" => lastSync.status # "rejected"

====
